---- MODULE Spec2Model ----
(***************************************************************************)
(* A model of the exchange-access subsystem of the trading agent:          *)
(*   - wallet/signature_engine.py      (SignatureEngine: nonces, signing   *)
(*                                      and verification)                  *)
(*   - wallet/permission_controller.py (PermissionController)              *)
(*   - wallet/wallet_registry.py       (WalletRegistry and its file)       *)
(*   - hyperliquid/client.py           (HyperliquidClient: info and        *)
(*                                      exchange calls, metadata caches)   *)
(*   - hyperliquid/websocket.py        (HyperliquidWebSocket)              *)
(*   - hyperliquid/types.py            (decoders and the asset directory)  *)
(* Each component has its own specification; the variables of the other    *)
(* components stay at their initial values in it.                          *)
(***************************************************************************)
EXTENDS Integers, Sequences, FiniteSets, TLC

VARIABLES
    current_nonce,   \* SignatureEngine.current_nonce
    issued,          \* nonces taken from the counter, in call order
    signedLog,       \* signatures produced: [nonce, explicit], in call order
    lastOp,          \* the last SignatureEngine call: name, argument, result
    tpc,             \* per thread: position inside get_next_nonce / sign_*
    tnonce,          \* per thread: the local variable `nonce`
    ttmp,            \* per thread: the value loaded by `self.current_nonce += 1`
    tgot,            \* per thread: the nonces its calls returned, in order
    global_risk_limits, \* PermissionController.global_risk_limits
    call,            \* the arguments of a validate_action call
    result,          \* what validate_action returned
    vpc,             \* "ready" before validate_action has run, "done" after
    session,         \* HyperliquidClient.session is not None
    posts,           \* POST requests that reached the network, in order
    validatedOk,     \* requests for which validate_action returned allowed
    lastErr,         \* the error the last client call raised, or "none"
    action_log,      \* PermissionController.action_log
    daily_stats,     \* PermissionController.daily_stats
    today,           \* the calendar day datetime.now() reports
    logged,          \* every entry log_action was called with, in call order
    stopped,         \* wallets for which emergency_stop returned True
    auditLast,       \* the last validate_action / emergency_stop call
    lpc,             \* per thread: position inside log_action
    ltmp,            \* per thread: the counter value a `+=` has loaded
    llog,            \* per thread: the slice action_log[-1000:] it has taken
    lcalls,          \* per thread: log_action calls it has started
    connected,       \* HyperliquidWebSocket.connected
    websocket,       \* HyperliquidWebSocket.websocket: a socket id, 0 is None
    reconnect_count, \* HyperliquidWebSocket.reconnect_count
    subscriptions,   \* HyperliquidWebSocket.subscriptions, by key
    callbacks,       \* HyperliquidWebSocket.callbacks: event -> callbacks
    tasks,           \* the asyncio tasks and coroutines of the client
    receive_task,    \* HyperliquidWebSocket._receive_task: a task id, 0 is None
    heartbeat_task,  \* HyperliquidWebSocket._heartbeat_task
    reconnect_task,  \* HyperliquidWebSocket._reconnect_task
    sockets,         \* sockets websockets.connect has returned so far
    sockOpen,        \* the sockets that are open
    wire,            \* messages the client has sent: [sock, method, sub]
    emitted,         \* the callback calls of the last step that emitted
    lastFrame,       \* the frame those calls came from, if it was a frame
    attempts,        \* connect() runs _handle_reconnect has scheduled
    closedByCaller,  \* disconnect() was the last of connect() / disconnect()
    subHist,         \* the last two subscribe / unsubscribe calls
    meta_cache,      \* HyperliquidClient._meta_cache is not None
    spot_meta_cache, \* HyperliquidClient._spot_meta_cache is not None
    asset_info_cache, \* the keys of HyperliquidClient._asset_info_cache
    cpc,             \* per caller: the info method it is awaiting in
    carg,            \* per caller: the asset_id of its get_asset_info call
    csent,           \* per caller: POSTs its current call has sent
    cnet,            \* per caller: how the network answered its POST
    cerr,            \* per caller: the error its last call raised, or "none"
    metaFetched,     \* meta responses stored since the last clear_cache()
    spotFetched,     \* spotMeta responses stored since the last clear_cache()
    registry,        \* WalletRegistry.registry["wallets"]
    registry_file,   \* what data/wallet_registry.json holds
    now,             \* the wall clock of the registry, in days
    regHist,         \* per wallet: every entry logged since it was registered
    regOp,           \* the last registry operation, its arguments and return
    regCalls,        \* registry operations called so far
    dirCall,         \* the lookup a caller makes in the asset directory
    dirResult,       \* what the lookup and the lookup back returned
    dirPc,           \* "idle", "ready" (lookup chosen) or "done"
    decCall,         \* the decoder a caller applies and the raw record
    decOut,          \* what from_dict returned or raised
    decPc,           \* "idle", "ready" (record chosen) or "done"
    signed,          \* the signatures an engine made, with what was signed
    verified,        \* the last verify_signature call and its return
    sigDict,         \* what signing.sign_user_action / sign_l1_action returned
    sigCheck,        \* the last signing.verify_signature call and its return
    environ,         \* os.environ.get("HYPER_LIQUID_KEY")
    instance,        \* the SignatureEngine the caller holds, if any
    constructed      \* the last SignatureEngine(...) call and how it ended

engineVars == <<current_nonce, issued, signedLog, lastOp>>
threadVars == <<tpc, tnonce, ttmp, tgot>>
permVars   == <<global_risk_limits, call, result, vpc>>
gateVars   == <<session, posts, validatedOk, lastErr>>
auditVars  == <<action_log, daily_stats, today, logged, stopped, auditLast>>
logThreadVars == <<lpc, ltmp, llog, lcalls>>
wsVars ==
    <<connected, websocket, reconnect_count, subscriptions, callbacks, tasks,
      receive_task, heartbeat_task, reconnect_task, sockets, sockOpen, wire,
      emitted, lastFrame, attempts, closedByCaller, subHist>>
infoVars ==
    <<meta_cache, spot_meta_cache, asset_info_cache, cpc, carg, csent, cnet,
      cerr, metaFetched, spotFetched>>
regVars == <<registry, registry_file, now, regHist, regOp, regCalls>>
dirVars == <<dirCall, dirResult, dirPc>>
decVars == <<decCall, decOut, decPc>>
sigVars == <<signed, verified>>
signingVars == <<sigDict, sigCheck>>
ctorVars == <<environ, instance, constructed>>
pureVars == <<dirVars, decVars, sigVars, signingVars, ctorVars>>
vars ==
    <<engineVars, threadVars, permVars, gateVars, auditVars, logThreadVars,
      wsVars, infoVars, regVars, pureVars>>

(***************************************************************************)
(* Bounds of the model.                                                    *)
(***************************************************************************)
MaxSeed   == 1   \* the counter is seeded in 0..MaxSeed (wall-clock ms, scaled)
MaxNonce  == 3   \* the counter is not advanced beyond this value
MaxSigned == 2   \* signatures recorded per run
MaxCalls  == 2   \* calls each concurrent thread makes
MaxGrants == 2   \* length of a wallet's grant list
MaxPosts  == 2   \* POST requests recorded per run
MaxLogged == 4   \* log_action calls per run
MaxDay    == 2   \* calendar days a run spans: 0..MaxDay
LogRetention == 2 \* entries action_log keeps (1000 in the code, scaled)
max_reconnects == 3 \* HyperliquidWebSocket.max_reconnects (10 by default)
MaxTasks  == 6   \* tasks and coroutines of one client alive at a time
MaxSocks  == 3   \* connections the server accepts per run
MaxWire   == 3   \* subscribe / unsubscribe messages sent per run
MaxCallbacks == 2 \* callbacks registered per event

Max(a, b) == IF a > b THEN a ELSE b

\* What a step of one component leaves alone: the other components.
EngineFrame ==
    UNCHANGED <<threadVars, permVars, gateVars, auditVars, logThreadVars,
                wsVars,
                infoVars, regVars, pureVars>>
ThreadFrame ==
    UNCHANGED <<issued, signedLog, lastOp, permVars, gateVars, auditVars,
                logThreadVars, wsVars,
                infoVars, regVars, pureVars>>
PermFrame ==
    UNCHANGED <<engineVars, threadVars, gateVars, auditVars, logThreadVars,
                wsVars,
                infoVars, regVars, pureVars>>
GateFrame ==
    UNCHANGED <<engineVars, threadVars, permVars, auditVars, logThreadVars,
                wsVars,
                infoVars, regVars, pureVars>>
AuditFrame ==
    UNCHANGED <<engineVars, threadVars, permVars, gateVars, logThreadVars,
                wsVars,
                infoVars, regVars, pureVars>>
LogThreadFrame ==
    UNCHANGED <<engineVars, threadVars, permVars, gateVars, today, stopped,
                auditLast, wsVars,
                infoVars, regVars, pureVars>>
InfoFrame ==
    UNCHANGED <<engineVars, threadVars, permVars, gateVars, auditVars,
                logThreadVars, wsVars, regVars, pureVars>>
RegFrame ==
    UNCHANGED <<engineVars, threadVars, permVars, gateVars, auditVars,
                logThreadVars, wsVars, infoVars, pureVars>>
PureFrame ==
    UNCHANGED <<engineVars, threadVars, permVars, gateVars, auditVars,
                logThreadVars, wsVars, infoVars, regVars>>
WsFrame ==
    UNCHANGED <<engineVars, threadVars, permVars, gateVars, auditVars,
                logThreadVars,
                infoVars, regVars, pureVars>>
EngineFrameOutsidePure ==
    UNCHANGED <<threadVars, permVars, gateVars, auditVars, logThreadVars,
                wsVars, infoVars, regVars>>

(***************************************************************************)
(* SignatureEngine                                                         *)
(***************************************************************************)

\* A nonce argument: <<>> is Python's None, <<n>> is the integer n.
NonceArgs == {<<>>} \cup {<<n>> : n \in 0..MaxNonce}

\* Action types of sign_user_action; _create_typed_data raises on any other.
TypedDataTypes == {"usdSend", "withdraw3", "spotSend", "approveAgent"}
UserActionTypes == TypedDataTypes \cup {"order"}

NoOp == [op |-> "none", arg |-> <<>>, ret |-> <<>>, raised |-> FALSE]

InitEngine ==
    /\ current_nonce \in 0..MaxSeed
    /\ issued = <<>>
    /\ signedLog = <<>>
    /\ lastOp = NoOp

\* reset_nonce with the max() dropped: the counter is set to nonce + 1.
ResetValueNoMax(cur, nonce) == nonce + 1

\* reset_nonce taking max(current_nonce, nonce): the counter may stay at the
\* value passed in.
ResetValueOffByOne(cur, nonce) == Max(cur, nonce)

\* The counter after reset_nonce(nonce).
ResetValue(cur, nonce) == Max(cur, nonce + 1)

\* _create_typed_data raises ValueError for an unsupported action type.
TypedDataRaises(actionType) == actionType \notin TypedDataTypes

GetNextNonce ==
    /\ current_nonce < MaxNonce
    /\ current_nonce' = current_nonce + 1
    /\ issued' = Append(issued, current_nonce)
    /\ lastOp' = [op |-> "get_next_nonce", arg |-> <<>>,
                  ret |-> <<current_nonce>>, raised |-> FALSE]
    /\ UNCHANGED signedLog
    /\ EngineFrame

ResetNonce(n) ==
    /\ ResetValue(current_nonce, n) <= MaxNonce
    /\ current_nonce' = ResetValue(current_nonce, n)
    /\ lastOp' = [op |-> "reset_nonce", arg |-> <<n>>, ret |-> <<>>,
                  raised |-> FALSE]
    /\ UNCHANGED <<issued, signedLog>>
    /\ EngineFrame

\* sign_l1_action(action, nonce): the nonce is taken from the counter when
\* none is given; json.dumps raises on an action that is not
\* JSON-serializable, after the counter has been advanced.
SignL1Action(nonceArg, serializable) ==
    LET auto == nonceArg = <<>>
        nonce == IF auto THEN current_nonce ELSE nonceArg[1]
    IN  /\ auto => current_nonce < MaxNonce
        /\ serializable => Len(signedLog) < MaxSigned
        /\ current_nonce' = IF auto THEN current_nonce + 1 ELSE current_nonce
        /\ issued' = IF auto THEN Append(issued, current_nonce) ELSE issued
        /\ signedLog' = IF serializable
                        THEN Append(signedLog,
                                    [nonce |-> nonce, explicit |-> ~auto])
                        ELSE signedLog
        /\ lastOp' = [op |-> "sign_l1_action", arg |-> nonceArg,
                      ret |-> IF serializable THEN <<nonce>> ELSE <<>>,
                      raised |-> ~serializable]
        /\ EngineFrame

\* sign_user_action building the typed data before it takes a nonce: a
\* call that raises leaves the counter alone.
SignUserActionRaiseFirst(nonceArg, actionType) ==
    LET auto == nonceArg = <<>>
        nonce == IF auto THEN current_nonce ELSE nonceArg[1]
        raises == TypedDataRaises(actionType)
        takes == auto /\ ~raises
    IN  /\ auto => current_nonce < MaxNonce
        /\ ~raises => Len(signedLog) < MaxSigned
        /\ current_nonce' = IF takes THEN current_nonce + 1 ELSE current_nonce
        /\ issued' = IF takes THEN Append(issued, current_nonce) ELSE issued
        /\ signedLog' = IF raises THEN signedLog
                        ELSE Append(signedLog,
                                    [nonce |-> nonce, explicit |-> ~auto])
        /\ lastOp' = [op |-> "sign_user_action", arg |-> nonceArg,
                      ret |-> IF raises THEN <<>> ELSE <<nonce>>,
                      raised |-> raises]
        /\ EngineFrame

\* sign_user_action(action, nonce): as sign_l1_action, with the typed data
\* built after the counter has been advanced.
SignUserAction(nonceArg, actionType) ==
    LET auto == nonceArg = <<>>
        nonce == IF auto THEN current_nonce ELSE nonceArg[1]
        raises == TypedDataRaises(actionType)
    IN  /\ auto => current_nonce < MaxNonce
        /\ ~raises => Len(signedLog) < MaxSigned
        /\ current_nonce' = IF auto THEN current_nonce + 1 ELSE current_nonce
        /\ issued' = IF auto THEN Append(issued, current_nonce) ELSE issued
        /\ signedLog' = IF raises THEN signedLog
                        ELSE Append(signedLog,
                                    [nonce |-> nonce, explicit |-> ~auto])
        /\ lastOp' = [op |-> "sign_user_action", arg |-> nonceArg,
                      ret |-> IF raises THEN <<>> ELSE <<nonce>>,
                      raised |-> raises]
        /\ EngineFrame

\* create_order_signature: get_next_nonce, then sign_l1_action with it.
CreateOrderSignature(serializable) ==
    /\ current_nonce < MaxNonce
    /\ serializable => Len(signedLog) < MaxSigned
    /\ current_nonce' = current_nonce + 1
    /\ issued' = Append(issued, current_nonce)
    /\ signedLog' = IF serializable
                    THEN Append(signedLog, [nonce |-> current_nonce,
                                            explicit |-> FALSE])
                    ELSE signedLog
    /\ lastOp' = [op |-> "create_order_signature", arg |-> <<>>,
                  ret |-> IF serializable THEN <<current_nonce>> ELSE <<>>,
                  raised |-> ~serializable]
    /\ EngineFrame

\* create_transfer_signature: get_next_nonce, then sign_user_action with it.
CreateTransferSignature(actionType) ==
    LET raises == TypedDataRaises(actionType)
    IN  /\ current_nonce < MaxNonce
        /\ ~raises => Len(signedLog) < MaxSigned
        /\ current_nonce' = current_nonce + 1
        /\ issued' = Append(issued, current_nonce)
        /\ signedLog' = IF raises THEN signedLog
                        ELSE Append(signedLog, [nonce |-> current_nonce,
                                                explicit |-> FALSE])
        /\ lastOp' = [op |-> "create_transfer_signature", arg |-> <<>>,
                      ret |-> IF raises THEN <<>> ELSE <<current_nonce>>,
                      raised |-> raises]
        /\ EngineFrame

(***************************************************************************)
(* Concurrent callers of one SignatureEngine. The engine takes no lock, so *)
(* the statements of get_next_nonce (and of the `nonce is None` branch of  *)
(* sign_l1_action / sign_user_action, which are the same two statements)   *)
(* interleave between threads at the granularity of attribute loads and    *)
(* stores.                                                                 *)
(***************************************************************************)
NumThreads == 2
Threads == 1..NumThreads

InitThreads ==
    /\ tpc = [t \in Threads |-> "idle"]
    /\ tnonce = [t \in Threads |-> 0]
    /\ ttmp = [t \in Threads |-> 0]
    /\ tgot = [t \in Threads |-> <<>>]

\* A thread enters get_next_nonce (or a sign call given no nonce).
TCall(t) ==
    /\ tpc[t] = "idle"
    /\ Len(tgot[t]) < MaxCalls
    /\ tpc' = [tpc EXCEPT ![t] = "read"]
    /\ UNCHANGED <<current_nonce, tnonce, ttmp, tgot>>
    /\ ThreadFrame

\* nonce = self.current_nonce
TRead(t) ==
    /\ tpc[t] = "read"
    /\ tnonce' = [tnonce EXCEPT ![t] = current_nonce]
    /\ tpc' = [tpc EXCEPT ![t] = "load"]
    /\ UNCHANGED <<current_nonce, ttmp, tgot>>
    /\ ThreadFrame

\* self.current_nonce += 1, first half: load the attribute
TLoad(t) ==
    /\ tpc[t] = "load"
    /\ ttmp' = [ttmp EXCEPT ![t] = current_nonce]
    /\ tpc' = [tpc EXCEPT ![t] = "store"]
    /\ UNCHANGED <<current_nonce, tnonce, tgot>>
    /\ ThreadFrame

\* self.current_nonce += 1, second half: store the sum
TStore(t) ==
    /\ tpc[t] = "store"
    /\ current_nonce' = ttmp[t] + 1
    /\ tpc' = [tpc EXCEPT ![t] = "return"]
    /\ UNCHANGED <<tnonce, ttmp, tgot>>
    /\ ThreadFrame

\* return nonce
TReturn(t) ==
    /\ tpc[t] = "return"
    /\ tgot' = [tgot EXCEPT ![t] = Append(tgot[t], tnonce[t])]
    /\ tpc' = [tpc EXCEPT ![t] = "idle"]
    /\ UNCHANGED <<current_nonce, tnonce, ttmp>>
    /\ ThreadFrame


(***************************************************************************)
(* PermissionController                                                    *)
(***************************************************************************)

\* Defaults of __init__ and the literals of the risk checks.
DefaultMaxTotalExposure == 50000
DefaultMaxDailyLoss     == 1000
ConfirmationThreshold   == 5000
HighRiskNotional        == 2000

\* permission_levels[level]["allowed_actions"]; a tag that is no level has
\* none (permission_levels.get(perm_level, {}).get("allowed_actions", [])).
ReadActions == {"get_positions", "get_balance", "get_account_value", "get_data"}
AllowedActions(level) ==
    CASE level = "read_only" -> ReadActions
      [] level = "trading" ->
            ReadActions \cup {"place_order", "cancel_order", "modify_order",
                              "close_position", "update_leverage",
                              "update_margin"}
      [] level = "full_access" ->
            {"*", "transfer_funds", "withdraw", "deposit", "send_asset",
             "approve_wallet", "manage_permissions"}
      [] OTHER -> {}

\* A parameter of the params dictionary: a number, a missing key, or a
\* value that is not a number (None, a string).
Num(v) == [kind |-> "num", val |-> v]
Absent == [kind |-> "absent", val |-> 0]
Bad    == [kind |-> "bad", val |-> 0]

\* params.get(key, default)
Get(p, default) == IF p.kind = "absent" THEN Num(default) ELSE p

Reason(kind, nums) == [kind |-> kind, nums |-> nums]
NoReason == Reason("none", <<>>)

\* _check_permissions with the wildcard test dropped.
RECURSIVE CheckPermissionsNoWildcard(_, _, _)
CheckPermissionsNoWildcard(action, wallet_permissions, allowed_actions) ==
    IF wallet_permissions = <<>>
    THEN IF action \in allowed_actions
         THEN [allowed |-> TRUE, reason |-> Reason("permitted", <<>>)]
         ELSE [allowed |-> FALSE, reason |-> Reason("not_permitted", <<>>)]
    ELSE CheckPermissionsNoWildcard(action, Tail(wallet_permissions),
             allowed_actions \cup AllowedActions(Head(wallet_permissions)))

\* _check_permissions deciding by the last grant of the list alone.
CheckPermissionsLastGrant(action, wallet_permissions, allowed_actions) ==
    LET level_actions ==
            IF wallet_permissions = <<>> THEN {}
            ELSE AllowedActions(wallet_permissions[Len(wallet_permissions)])
    IN  IF "*" \in level_actions
        THEN [allowed |-> TRUE, reason |-> Reason("full_access", <<>>)]
        ELSE IF action \in level_actions
        THEN [allowed |-> TRUE, reason |-> Reason("permitted", <<>>)]
        ELSE [allowed |-> FALSE, reason |-> Reason("not_permitted", <<>>)]

\* _check_permissions: the loop over the grants, left to right, with the
\* set of actions gathered so far.
RECURSIVE CheckPermissions(_, _, _)
CheckPermissions(action, wallet_permissions, allowed_actions) ==
    IF wallet_permissions = <<>>
    THEN IF action \in allowed_actions
         THEN [allowed |-> TRUE, reason |-> Reason("permitted", <<>>)]
         ELSE [allowed |-> FALSE, reason |-> Reason("not_permitted", <<>>)]
    ELSE LET level_actions == AllowedActions(Head(wallet_permissions))
         IN  IF "*" \in level_actions
             THEN [allowed |-> TRUE, reason |-> Reason("full_access", <<>>)]
             ELSE CheckPermissions(action, Tail(wallet_permissions),
                                   allowed_actions \cup level_actions)

TradingActions == {"place_order", "modify_order"}
FundActions == {"withdraw", "transfer_funds", "send_asset"}

\* _check_risk_limits without the exposure check.
CheckRiskLimitsNoExposure(limits, action, params) ==
    LET amount == Get(params.amount, 0)
    IN  IF action \in FundActions /\ amount.kind = "bad"
        THEN [allowed |-> FALSE, reason |-> Reason("risk_check_error", <<>>),
              risk_level |-> "medium"]
        ELSE IF action \in FundActions /\ amount.val > limits.max_daily_loss
        THEN [allowed |-> FALSE,
              reason |-> Reason("daily_limit",
                                <<amount.val, limits.max_daily_loss>>),
              risk_level |-> "high"]
        ELSE [allowed |-> TRUE, reason |-> Reason("risk_ok", <<>>),
              risk_level |-> "none"]

\* _check_risk_limits: an arithmetic or comparison on a value that is not a
\* number raises inside the try and gives the "Risk check error" result.
CheckRiskLimits(limits, action, params) ==
    LET size == Get(params.size, 0)
        leverage == Get(params.leverage, 1)
        amount == Get(params.amount, 0)
    IN  IF action \in TradingActions
           /\ (size.kind = "bad" \/ leverage.kind = "bad")
        THEN [allowed |-> FALSE, reason |-> Reason("risk_check_error", <<>>),
              risk_level |-> "medium"]
        ELSE IF action \in TradingActions
                /\ size.val * leverage.val > limits.max_total_exposure
        THEN [allowed |-> FALSE,
              reason |-> Reason("exposure", <<size.val * leverage.val,
                                              limits.max_total_exposure>>),
              risk_level |-> "high"]
        ELSE IF action \in FundActions /\ amount.kind = "bad"
        THEN [allowed |-> FALSE, reason |-> Reason("risk_check_error", <<>>),
              risk_level |-> "medium"]
        ELSE IF action \in FundActions /\ amount.val > limits.max_daily_loss
        THEN [allowed |-> FALSE,
              reason |-> Reason("daily_limit",
                                <<amount.val, limits.max_daily_loss>>),
              risk_level |-> "high"]
        ELSE [allowed |-> TRUE, reason |-> Reason("risk_ok", <<>>),
              risk_level |-> "none"]

HighRiskConfirmActions ==
    {"withdraw", "transfer_funds", "send_asset", "approve_wallet",
     "manage_permissions"}

\* _requires_ai_confirmation with >= in place of > at the threshold.
RequiresAiConfirmationAtThreshold(limits, action, params) ==
    IF ~limits.require_ai_confirmation THEN FALSE
    ELSE IF action \in HighRiskConfirmActions THEN TRUE
    ELSE IF action \in TradingActions
    THEN Get(params.size, 0).val * Get(params.leverage, 1).val
            >= ConfirmationThreshold
    ELSE FALSE

\* _requires_ai_confirmation with the high-risk action list left out.
RequiresAiConfirmationTradesOnly(limits, action, params) ==
    IF ~limits.require_ai_confirmation THEN FALSE
    ELSE IF action \in TradingActions
    THEN Get(params.size, 0).val * Get(params.leverage, 1).val
            > ConfirmationThreshold
    ELSE FALSE

\* _requires_ai_confirmation, for params whose size and leverage are numbers
\* (validate_action reaches it for a trading action only after
\* _check_risk_limits has computed size * leverage).
RequiresAiConfirmation(limits, action, params) ==
    IF ~limits.require_ai_confirmation THEN FALSE
    ELSE IF action \in HighRiskConfirmActions THEN TRUE
    ELSE IF action \in TradingActions
    THEN Get(params.size, 0).val * Get(params.leverage, 1).val
            > ConfirmationThreshold
    ELSE FALSE

\* Whether _get_action_risk_level raises: it multiplies size by leverage
\* for a medium-risk action, outside any try of its own.
ActionRiskLevelRaises(action, params) ==
    /\ action \in {"place_order", "modify_order", "update_leverage"}
    /\ (Get(params.size, 0).kind = "bad" \/ Get(params.leverage, 1).kind = "bad")

\* _get_action_risk_level
ActionRiskLevel(action, params) ==
    IF action \in {"withdraw", "transfer_funds", "send_asset", "approve_wallet"}
    THEN "high"
    ELSE IF action \in {"place_order", "modify_order", "update_leverage"}
    THEN IF Get(params.size, 0).val * Get(params.leverage, 1).val
              > HighRiskNotional
         THEN "high" ELSE "medium"
    ELSE "low"

\* _get_action_limits: the limits of the highest level among the grants,
\* named by the level ("none": the empty dictionary).
InGrants(level, wallet_permissions) ==
    \E i \in 1..Len(wallet_permissions) : wallet_permissions[i] = level
ActionLimits(wallet_permissions) ==
    IF InGrants("full_access", wallet_permissions) THEN "full_access"
    ELSE IF InGrants("trading", wallet_permissions) THEN "trading"
    ELSE IF InGrants("read_only", wallet_permissions) THEN "read_only"
    ELSE "none"

\* The dictionary validate_action returns, with the reason left out of
\* every denial.
VerdictBare(allowed, has_confirmation, confirmation, reason, risk_level, limits) ==
    [allowed |-> allowed, has_confirmation |-> has_confirmation,
     requires_ai_confirmation |-> confirmation,
     reason |-> IF allowed THEN reason ELSE [kind |-> "none", nums |-> <<>>],
     risk_level |-> risk_level, limits |-> limits]

\* The dictionary validate_action returns: has_confirmation says whether the
\* key requires_ai_confirmation is present in it.
Verdict(allowed, has_confirmation, confirmation, reason, risk_level, limits) ==
    [allowed |-> allowed, has_confirmation |-> has_confirmation,
     requires_ai_confirmation |-> confirmation, reason |-> reason,
     risk_level |-> risk_level, limits |-> limits]

\* validate_action with the permission step left out.
ValidateActionNoPermissionStep(limits, action, params, wallet_permissions) ==
    LET risk_check == CheckRiskLimits(limits, action, params)
    IN  IF ~risk_check.allowed
        THEN Verdict(FALSE, FALSE, FALSE, risk_check.reason,
                     risk_check.risk_level, "none")
        ELSE IF RequiresAiConfirmation(limits, action, params)
        THEN Verdict(TRUE, TRUE, TRUE, Reason("ai_confirmation", <<>>),
                     "high", "none")
        ELSE IF ActionRiskLevelRaises(action, params)
        THEN Verdict(FALSE, FALSE, FALSE, Reason("validation_error", <<>>),
                     "blocked", "none")
        ELSE Verdict(TRUE, TRUE, FALSE, NoReason,
                     ActionRiskLevel(action, params),
                     ActionLimits(wallet_permissions))

\* validate_action(wallet_address, action, params, wallet_permissions)
ValidateAction(limits, action, params, wallet_permissions) ==
    LET permission_check == CheckPermissions(action, wallet_permissions, {})
        risk_check == CheckRiskLimits(limits, action, params)
    IN  IF ~permission_check.allowed
        THEN Verdict(FALSE, FALSE, FALSE, permission_check.reason,
                     "blocked", "none")
        ELSE IF ~risk_check.allowed
        THEN Verdict(FALSE, FALSE, FALSE, risk_check.reason,
                     risk_check.risk_level, "none")
        ELSE IF RequiresAiConfirmation(limits, action, params)
        THEN Verdict(TRUE, TRUE, TRUE, Reason("ai_confirmation", <<>>),
                     "high", "none")
        ELSE IF ActionRiskLevelRaises(action, params)
        THEN Verdict(FALSE, FALSE, FALSE, Reason("validation_error", <<>>),
                     "blocked", "none")
        ELSE Verdict(TRUE, TRUE, FALSE, NoReason,
                     ActionRiskLevel(action, params),
                     ActionLimits(wallet_permissions))


\* The inputs validate_action is applied to.
Actions ==
    {"get_balance", "place_order", "modify_order", "update_leverage",
     "withdraw", "transfer_funds", "manage_permissions", "liquidate_all"}
GrantTags == {"read_only", "trading", "full_access", "read"}
SizeValues == {Num(0), Num(2500), Num(5001), Num(20000), Absent, Bad}
LeverageValues == {Num(2), Num(3), Absent, Bad}
AmountValues == {Num(500), Num(1001), Absent, Bad}
ParamSet == [size : SizeValues, leverage : LeverageValues, amount : AmountValues]
RECURSIVE SeqsUpTo(_, _)
SeqsUpTo(S, n) ==
    IF n = 0 THEN {<<>>}
    ELSE SeqsUpTo(S, n - 1)
         \cup {Append(q, x) : q \in {r \in SeqsUpTo(S, n - 1) : Len(r) = n - 1},
                              x \in S}
GrantLists == SeqsUpTo(GrantTags, MaxGrants)

\* global_risk_limits as __init__ reads it from the environment: the
\* defaults, or an operator's override.
RiskLimitConfigs ==
    [max_total_exposure : {DefaultMaxTotalExposure, 10000},
     max_daily_loss : {DefaultMaxDailyLoss, 400},
     require_ai_confirmation : BOOLEAN]
DefaultRiskLimits ==
    [max_total_exposure |-> DefaultMaxTotalExposure,
     max_daily_loss |-> DefaultMaxDailyLoss,
     require_ai_confirmation |-> TRUE]

NoCall == [wallet |-> "0xA1", action |-> "get_balance",
           params |-> [size |-> Absent, leverage |-> Absent, amount |-> Absent],
           grants |-> <<>>]
NoVerdict == Verdict(FALSE, FALSE, FALSE, NoReason, "none", "none")

\* The controller at rest, as the engine and client specifications see it.
InitPermIdle ==
    /\ global_risk_limits = DefaultRiskLimits
    /\ call = NoCall
    /\ result = NoVerdict
    /\ vpc = "idle"

\* A controller and one pending call of validate_action.
InitPerm ==
    /\ global_risk_limits \in RiskLimitConfigs
    /\ call \in [wallet : {"0xA1"}, action : Actions, params : ParamSet,
                 grants : GrantLists]
    /\ result = NoVerdict
    /\ vpc = "ready"

Validate ==
    /\ vpc = "ready"
    /\ result' = ValidateAction(global_risk_limits, call.action, call.params,
                                call.grants)
    /\ vpc' = "done"
    /\ UNCHANGED <<global_risk_limits, call>>
    /\ PermFrame

\* An optional argument: <<>> is None, <<x>> is the value x.
\* `params or {}` and `wallet_permissions or []`.
NoParams == [size |-> Absent, leverage |-> Absent, amount |-> Absent]
ParamsOrEmpty(params) == IF params = <<>> THEN NoParams ELSE params[1]
GrantsOrEmpty(wallet_permissions) ==
    IF wallet_permissions = <<>> THEN <<>> ELSE wallet_permissions[1]

\* validate_action without its except clause: the error of
\* _get_action_risk_level reaches the caller.
ValidateOutcomeNoExcept(limits, action, params, wallet_permissions) ==
    LET ret == ValidateAction(limits, action, ParamsOrEmpty(params),
                              GrantsOrEmpty(wallet_permissions))
    IN  [raised |-> ret.reason.kind = "validation_error", ret |-> ret]

\* A call of validate_action with optional params and wallet_permissions:
\* whether it raised and what it returned.
ValidateOutcome(limits, action, params, wallet_permissions) ==
    [raised |-> FALSE,
     ret |-> ValidateAction(limits, action, ParamsOrEmpty(params),
                            GrantsOrEmpty(wallet_permissions))]

\* A controller and one pending call of validate_action whose params and
\* wallet_permissions may be None.
InitPermAny ==
    /\ global_risk_limits \in
           {l \in RiskLimitConfigs :
               /\ l.max_total_exposure = DefaultMaxTotalExposure
               /\ l.max_daily_loss = DefaultMaxDailyLoss}
    /\ call \in [wallet : {"0xA1", "0xB2"}, action : Actions,
                 params : {<<>>} \cup {<<p>> : p \in ParamSet},
                 grants : {<<>>} \cup {<<g>> : g \in GrantLists}]
    /\ result = NoVerdict
    /\ vpc = "ready"

ValidateAny ==
    /\ vpc = "ready"
    /\ LET outcome == ValidateOutcome(global_risk_limits, call.action,
                                      call.params, call.grants)
       IN  /\ result' = outcome.ret
           /\ vpc' = IF outcome.raised THEN "raised" ELSE "done"
    /\ UNCHANGED <<global_risk_limits, call>>
    /\ PermFrame


(***************************************************************************)
(* PermissionController: the audit log, the daily statistics and the       *)
(* emergency stop.                                                         *)
(***************************************************************************)

Min(a, b) == IF a < b THEN a ELSE b

Wallets == {"0xA1", "0xB2"}

\* The daily_stats dictionary of a day on which nothing was counted yet.
NewDailyStats(day) ==
    [date |-> day, total_trades |-> 0, total_volume |-> 0, total_pnl |-> 0,
     max_loss |-> 0]

\* params.get("size", 0) and params.get("pnl", 0): an absent key reads 0.
LogParams(size, pnl) == [size |-> size, pnl |-> pnl]

\* The counting part of _update_daily_stats.
CountAction(stats, action, params, res) ==
    LET counted ==
            IF action \in {"place_order", "modify_order"} /\ res.success
            THEN [stats EXCEPT !.total_trades = @ + 1,
                               !.total_volume = @ + params.size]
            ELSE stats
    IN  IF action = "close_position"
        THEN [counted EXCEPT
                 !.total_pnl = @ + params.pnl,
                 !.max_loss = IF params.pnl < 0 THEN Min(@, params.pnl) ELSE @]
        ELSE counted

\* _update_daily_stats moving the date on without zeroing the counters.
UpdateDailyStatsNoReset(stats, day, action, params, res) ==
    CountAction([stats EXCEPT !.date = day], action, params, res)

\* _update_daily_stats(action, params, result), `day` being today's date.
UpdateDailyStats(stats, day, action, params, res) ==
    CountAction(IF stats.date # day THEN NewDailyStats(day) ELSE stats,
                action, params, res)

\* log[-n:] for a log longer than n, the log itself otherwise.
LastEntries(log, n) ==
    IF Len(log) > n THEN SubSeq(log, Len(log) - n + 1, Len(log)) ELSE log

\* The log_entry dictionary of log_action.
LogEntry(day, wallet, agent, action, params, res) ==
    [timestamp |-> day, wallet_address |-> wallet, agent_name |-> agent,
     action |-> action, params |-> params, result |-> res,
     risk_level |-> "unknown"]

NoAudit ==
    [op |-> "none", wallet |-> "none", action |-> "none",
     grants |-> <<>>, ret |-> FALSE]

InitAudit ==
    /\ action_log = <<>>
    /\ daily_stats = NewDailyStats(0)
    /\ today = 0
    /\ logged = <<>>
    /\ stopped = {}
    /\ auditLast = NoAudit
    /\ lpc = [t \in Threads |-> "idle"]
    /\ ltmp = [t \in Threads |-> 0]
    /\ llog = [t \in Threads |-> <<>>]
    /\ lcalls = [t \in Threads |-> 0]

\* What log_action does to the log and the statistics.
LogEffect(wallet, agent, action, params, res) ==
    LET entry == LogEntry(today, wallet, agent, action, params, res)
    IN  /\ action_log' = LastEntries(Append(action_log, entry), LogRetention)
        /\ daily_stats' =
               UpdateDailyStats(daily_stats, today, action, params, res)
        /\ logged' = Append(logged, entry)

\* log_action(wallet_address, action, params, result, agent_name)
LogAction(wallet, agent, action, params, res) ==
    /\ Len(logged) < MaxLogged
    /\ LogEffect(wallet, agent, action, params, res)
    /\ UNCHANGED <<today, stopped, auditLast>>
    /\ AuditFrame

(* log_action as concurrent threads run it: the statements of log_action   *)
(* and _update_daily_stats one at a time, each `+=` and the trimming of    *)
(* the log being a load followed by a store. Thread t logs a successful    *)
(* order of size t.                                                        *)

ThreadAction(t) == IF t = 1 THEN "place_order" ELSE "modify_order"
ThreadEntry(t) ==
    LogEntry(today, "0xA1", "none", ThreadAction(t), LogParams(t, 0),
             [success |-> TRUE])

\* self.action_log.append(log_entry)
LAppend(t) ==
    /\ lpc[t] = "idle"
    /\ lcalls[t] < MaxCalls
    /\ lcalls' = [lcalls EXCEPT ![t] = @ + 1]
    /\ action_log' = Append(action_log, ThreadEntry(t))
    /\ logged' = Append(logged, ThreadEntry(t))
    /\ lpc' = [lpc EXCEPT ![t] = "trades_load"]
    /\ UNCHANGED <<daily_stats, ltmp, llog>>
    /\ LogThreadFrame

\* the date check of _update_daily_stats, then the load of
\* self.daily_stats["total_trades"] += 1
LLoadTrades(t) ==
    /\ lpc[t] = "trades_load"
    /\ LET stats == IF daily_stats.date # today THEN NewDailyStats(today)
                    ELSE daily_stats
       IN  /\ daily_stats' = stats
           /\ ltmp' = [ltmp EXCEPT ![t] = stats.total_trades]
    /\ lpc' = [lpc EXCEPT ![t] = "trades_store"]
    /\ UNCHANGED <<action_log, logged, llog, lcalls>>
    /\ LogThreadFrame

\* the store of self.daily_stats["total_trades"] += 1
LStoreTrades(t) ==
    /\ lpc[t] = "trades_store"
    /\ daily_stats' = [daily_stats EXCEPT !.total_trades = ltmp[t] + 1]
    /\ lpc' = [lpc EXCEPT ![t] = "volume_load"]
    /\ UNCHANGED <<action_log, logged, ltmp, llog, lcalls>>
    /\ LogThreadFrame

\* the load of self.daily_stats["total_volume"] += size
LLoadVolume(t) ==
    /\ lpc[t] = "volume_load"
    /\ ltmp' = [ltmp EXCEPT ![t] = daily_stats.total_volume]
    /\ lpc' = [lpc EXCEPT ![t] = "volume_store"]
    /\ UNCHANGED <<action_log, daily_stats, logged, llog, lcalls>>
    /\ LogThreadFrame

\* the store of self.daily_stats["total_volume"] += size
LStoreVolume(t) ==
    /\ lpc[t] = "volume_store"
    /\ daily_stats' = [daily_stats EXCEPT !.total_volume = ltmp[t] + t]
    /\ lpc' = [lpc EXCEPT ![t] = "trim_check"]
    /\ UNCHANGED <<action_log, logged, ltmp, llog, lcalls>>
    /\ LogThreadFrame

\* if len(self.action_log) > 1000: the slice self.action_log[-1000:]
LTrimCheck(t) ==
    /\ lpc[t] = "trim_check"
    /\ IF Len(action_log) > LogRetention
       THEN /\ llog' = [llog EXCEPT ![t] = LastEntries(action_log, LogRetention)]
            /\ lpc' = [lpc EXCEPT ![t] = "trim_store"]
       ELSE /\ lpc' = [lpc EXCEPT ![t] = "idle"]
            /\ UNCHANGED llog
    /\ UNCHANGED <<action_log, daily_stats, logged, ltmp, lcalls>>
    /\ LogThreadFrame

\* self.action_log = <the slice>
LTrimStore(t) ==
    /\ lpc[t] = "trim_store"
    /\ action_log' = llog[t]
    /\ llog' = [llog EXCEPT ![t] = <<>>]
    /\ lpc' = [lpc EXCEPT ![t] = "idle"]
    /\ UNCHANGED <<daily_stats, logged, ltmp, lcalls>>
    /\ LogThreadFrame

\* emergency_stop(wallet_address, reason): one log_action call, then True.
EmergencyStop(wallet) ==
    /\ Len(logged) < MaxLogged
    /\ LogEffect(wallet, "system", "emergency_stop", LogParams(0, 0),
                 [success |-> TRUE])
    /\ stopped' = stopped \cup {wallet}
    /\ auditLast' = [op |-> "emergency_stop", wallet |-> wallet,
                     action |-> "emergency_stop", grants |-> <<>>,
                     ret |-> TRUE]
    /\ UNCHANGED today
    /\ AuditFrame

\* validate_action(wallet_address, action, params, wallet_permissions) on
\* the controller that holds the log.
ValidateActionCall(wallet, action, params, grants) ==
    /\ auditLast' =
           [op |-> "validate_action", wallet |-> wallet, action |-> action,
            grants |-> grants,
            ret |-> ValidateAction(global_risk_limits, action, params,
                                   grants).allowed]
    /\ UNCHANGED <<action_log, daily_stats, today, logged, stopped>>
    /\ AuditFrame

\* Midnight passes.
DayRolls ==
    /\ today < MaxDay
    /\ today' = today + 1
    /\ UNCHANGED <<action_log, daily_stats, logged, stopped, auditLast>>
    /\ AuditFrame

\* The validate_action calls the audit specification makes.
AuditCalls ==
    {[action |-> "get_balance", grants |-> <<"read_only">>],
     [action |-> "place_order", grants |-> <<"trading">>],
     [action |-> "place_order", grants |-> <<"read_only">>]}
AuditCallParams == [size |-> Num(2500), leverage |-> Num(2), amount |-> Absent]

\* The log_action calls the statistics specification makes.
StatsInputs ==
    {[action |-> "place_order", params |-> LogParams(1, 0), success |-> TRUE],
     [action |-> "place_order", params |-> LogParams(1, 0), success |-> FALSE],
     [action |-> "modify_order", params |-> LogParams(2, 0), success |-> TRUE],
     [action |-> "close_position", params |-> LogParams(0, -1),
      success |-> TRUE],
     [action |-> "close_position", params |-> LogParams(0, -2),
      success |-> TRUE],
     [action |-> "close_position", params |-> LogParams(0, 1),
      success |-> TRUE]}


(***************************************************************************)
(* HyperliquidClient: the session and the exchange-endpoint methods, with  *)
(* a caller that may ask the PermissionController about a request.         *)
(***************************************************************************)

\* The exchange-endpoint methods of the client.
ExchangeMethods ==
    {"place_order", "cancel_order", "modify_order", "update_leverage",
     "usd_send"}

\* A request a caller builds: the action and, for an order, its size.
Requests ==
    {r \in [action : ExchangeMethods, size : {0, 2500, 60000}] :
        r.size = 0 <=> r.action \notin {"place_order", "modify_order"}}

RequestParams(req) ==
    [size |-> Num(req.size), leverage |-> Absent, amount |-> Absent]

InitClient ==
    /\ session = FALSE
    /\ posts = <<>>
    /\ validatedOk = {}
    /\ lastErr = "none"

\* start(): a session is created unless there is one.
ClientStart ==
    /\ session' = TRUE
    /\ lastErr' = "none"
    /\ UNCHANGED <<posts, validatedOk>>
    /\ GateFrame

\* close()
ClientClose ==
    /\ session' = FALSE
    /\ lastErr' = "none"
    /\ UNCHANGED <<posts, validatedOk>>
    /\ GateFrame

\* _post_request(url, payload): raises RuntimeError without a session;
\* otherwise the POST is sent, and a transport or HTTP error is raised on.
PostRequest(url, req, response) ==
    IF ~session
    THEN /\ lastErr' = "RuntimeError"
         /\ UNCHANGED <<session, posts, validatedOk>>
    ELSE /\ Len(posts) < MaxPosts
         /\ posts' = Append(posts, [url |-> url, req |-> req])
         /\ lastErr' = response
         /\ UNCHANGED <<session, validatedOk>>

Responses == {"none", "ClientError"}

PlaceOrder(req, response) ==
    /\ req.action = "place_order"
    /\ PostRequest("exchange", req, response)
    /\ GateFrame

CancelOrder(req, response) ==
    /\ req.action = "cancel_order"
    /\ PostRequest("exchange", req, response)
    /\ GateFrame

ModifyOrder(req, response) ==
    /\ req.action = "modify_order"
    /\ PostRequest("exchange", req, response)
    /\ GateFrame

UpdateLeverage(req, response) ==
    /\ req.action = "update_leverage"
    /\ PostRequest("exchange", req, response)
    /\ GateFrame

UsdSend(req, response) ==
    /\ req.action = "usd_send"
    /\ PostRequest("exchange", req, response)
    /\ GateFrame

\* A caller asks the controller about a request and keeps the answer.
CallerValidates(req, grants) ==
    /\ ValidateAction(global_risk_limits, req.action, RequestParams(req),
                      grants).allowed
    /\ validatedOk' = validatedOk \cup {req}
    /\ UNCHANGED <<session, posts, lastErr>>
    /\ GateFrame

(***************************************************************************)
(* HyperliquidClient: the info-endpoint methods and the metadata caches.   *)
(* The client runs on one event loop; callers are coroutines that overlap  *)
(* at the await of a POST: a step is the code between two awaits.          *)
(***************************************************************************)

Callers == 1..NumThreads
UniverseLen == 1           \* len(meta["universe"]) of the server's answer
AssetArgs == 0..UniverseLen \* asset_id arguments: listed ones and one beyond

\* How the network answers a POST: a body, a transport error
\* (aiohttp.ClientError) or an HTTP error status (raise_for_status raises
\* aiohttp.ClientResponseError, a subclass of ClientError).
InfoResponses == {"ok", "ClientError", "ClientResponseError"}

InitInfo ==
    /\ meta_cache = FALSE
    /\ spot_meta_cache = FALSE
    /\ asset_info_cache = {}
    /\ cpc = [c \in Callers |-> "idle"]
    /\ carg = [c \in Callers |-> 0]
    /\ csent = [c \in Callers |-> 0]
    /\ cnet = [c \in Callers |-> "none"]
    /\ cerr = [c \in Callers |-> "none"]
    /\ metaFetched = 0
    /\ spotFetched = 0

\* A call that ends without awaiting: it returns, or raises err.
InfoEnds(c, err) ==
    /\ cpc' = [cpc EXCEPT ![c] = "idle"]
    /\ csent' = [csent EXCEPT ![c] = 0]
    /\ cnet' = [cnet EXCEPT ![c] = "none"]
    /\ cerr' = [cerr EXCEPT ![c] = err]

\* _post_request up to its await: RuntimeError without a session, else the
\* POST is sent and the caller waits at `where` for the answer.
InfoPostRequest(c, where) ==
    IF ~session
    THEN InfoEnds(c, "RuntimeError")
    ELSE /\ cpc' = [cpc EXCEPT ![c] = where]
         /\ csent' = [csent EXCEPT ![c] = 1]
         /\ cnet' = [cnet EXCEPT ![c] = "none"]
         /\ cerr' = [cerr EXCEPT ![c] = "none"]

\* A _post_request that answers an error with a second POST.
InfoPostReturnsRetry(c, rsp) ==
    /\ cnet' = [cnet EXCEPT ![c] = rsp]
    /\ cerr' = [cerr EXCEPT ![c] = "none"]
    /\ cpc' = [cpc EXCEPT ![c] = IF rsp = "ok" THEN "idle" ELSE @]
    /\ csent' = [csent EXCEPT ![c] = IF rsp = "ok" THEN @ ELSE 2]

\* _post_request from its await on: the body is returned, or the
\* ClientError is printed and re-raised as it is.
InfoPostReturns(c, rsp) ==
    /\ cnet' = [cnet EXCEPT ![c] = rsp]
    /\ cerr' = [cerr EXCEPT ![c] = IF rsp = "ok" THEN "none" ELSE rsp]
    /\ cpc' = [cpc EXCEPT ![c] = "idle"]
    /\ UNCHANGED csent

\* get_meta up to the await of its POST.
GetMeta(c) ==
    /\ cpc[c] = "idle"
    /\ IF meta_cache THEN InfoEnds(c, "none") ELSE InfoPostRequest(c, "meta")
    /\ UNCHANGED <<meta_cache, spot_meta_cache, asset_info_cache, carg,
                   metaFetched, spotFetched>>
    /\ InfoFrame

\* get_meta after the await: the answer is stored in _meta_cache.
GetMetaReturns(c, rsp) ==
    /\ cpc[c] = "meta"
    /\ InfoPostReturns(c, rsp)
    /\ IF rsp = "ok"
       THEN /\ meta_cache' = TRUE
            /\ metaFetched' = metaFetched + 1
       ELSE UNCHANGED <<meta_cache, metaFetched>>
    /\ UNCHANGED <<spot_meta_cache, asset_info_cache, carg, spotFetched>>
    /\ InfoFrame

\* get_spot_meta up to the await of its POST.
GetSpotMeta(c) ==
    /\ cpc[c] = "idle"
    /\ IF spot_meta_cache
       THEN InfoEnds(c, "none")
       ELSE InfoPostRequest(c, "spotMeta")
    /\ UNCHANGED <<meta_cache, spot_meta_cache, asset_info_cache, carg,
                   metaFetched, spotFetched>>
    /\ InfoFrame

\* get_spot_meta after the await: the answer is stored in _spot_meta_cache.
GetSpotMetaReturns(c, rsp) ==
    /\ cpc[c] = "spotMeta"
    /\ InfoPostReturns(c, rsp)
    /\ IF rsp = "ok"
       THEN /\ spot_meta_cache' = TRUE
            /\ spotFetched' = spotFetched + 1
       ELSE UNCHANGED <<spot_meta_cache, spotFetched>>
    /\ UNCHANGED <<meta_cache, asset_info_cache, carg, metaFetched>>
    /\ InfoFrame

\* The tail of get_asset_info, once it holds the metadata: the asset is
\* decoded and cached, or ValueError when it is not in the universe.
AssetLookup(c, asset_id) ==
    IF asset_id < UniverseLen
    THEN /\ asset_info_cache' = asset_info_cache \cup {asset_id}
         /\ cerr' = [cerr EXCEPT ![c] = "none"]
    ELSE /\ asset_info_cache' = asset_info_cache
         /\ cerr' = [cerr EXCEPT ![c] = "ValueError"]

\* get_asset_info up to the await inside its get_meta() call, or to its end
\* when nothing is awaited.
GetAssetInfo(c, asset_id) ==
    /\ cpc[c] = "idle"
    /\ carg' = [carg EXCEPT ![c] = asset_id]
    /\ IF asset_id \in asset_info_cache
       THEN /\ InfoEnds(c, "none")
            /\ UNCHANGED asset_info_cache
       ELSE IF meta_cache
            THEN /\ AssetLookup(c, asset_id)
                 /\ cpc' = [cpc EXCEPT ![c] = "idle"]
                 /\ csent' = [csent EXCEPT ![c] = 0]
                 /\ cnet' = [cnet EXCEPT ![c] = "none"]
            ELSE /\ InfoPostRequest(c, "assetInfo")
                 /\ UNCHANGED asset_info_cache
    /\ UNCHANGED <<meta_cache, spot_meta_cache, metaFetched, spotFetched>>
    /\ InfoFrame

\* get_asset_info after the await: get_meta stores the answer, then the
\* asset is looked up in it.
GetAssetInfoReturns(c, rsp) ==
    /\ cpc[c] = "assetInfo"
    /\ cnet' = [cnet EXCEPT ![c] = rsp]
    /\ cpc' = [cpc EXCEPT ![c] = "idle"]
    /\ IF rsp = "ok"
       THEN /\ meta_cache' = TRUE
            /\ metaFetched' = metaFetched + 1
            /\ AssetLookup(c, carg[c])
       ELSE /\ cerr' = [cerr EXCEPT ![c] = rsp]
            /\ UNCHANGED <<meta_cache, metaFetched, asset_info_cache>>
    /\ UNCHANGED <<spot_meta_cache, carg, csent, spotFetched>>
    /\ InfoFrame

\* get_all_mids up to the await of its POST; the other uncached info
\* methods (get_user_state, get_open_orders, get_user_fills, get_l2_book,
\* get_candles) have the same shape.
GetAllMids(c) ==
    /\ cpc[c] = "idle"
    /\ InfoPostRequest(c, "allMids")
    /\ UNCHANGED <<meta_cache, spot_meta_cache, asset_info_cache, carg,
                   metaFetched, spotFetched>>
    /\ InfoFrame

\* get_all_mids after the await.
GetAllMidsReturns(c, rsp) ==
    /\ cpc[c] = "allMids"
    /\ InfoPostReturns(c, rsp)
    /\ UNCHANGED <<meta_cache, spot_meta_cache, asset_info_cache, carg,
                   metaFetched, spotFetched>>
    /\ InfoFrame

\* clear_cache().
ClearCache ==
    /\ meta_cache' = FALSE
    /\ spot_meta_cache' = FALSE
    /\ asset_info_cache' = {}
    /\ metaFetched' = 0
    /\ spotFetched' = 0
    /\ UNCHANGED <<cpc, carg, csent, cnet, cerr>>
    /\ InfoFrame

(***************************************************************************)
(* WalletRegistry: the wallets dictionary, its JSON file and the clock.    *)
(* Of a wallet entry the fields an operation reads are kept; agent_name,   *)
(* description, risk_level, max_daily_volume, updated_at, deactivated_at   *)
(* and deactivation_reason are written and never read.                     *)
(***************************************************************************)

ApprovedKept == 2   \* entries approved_actions keeps (100 in the code, scaled)
BlockedKept  == 1   \* entries blocked_actions keeps (50 in the code, scaled)
MaxRegCalls  == 6   \* registry operations per run
MaxTime      == 3   \* days the registry's clock runs over: 0..MaxTime

\* datetime.isoformat() and datetime.fromisoformat(): <<>> is None, <<t>> is
\* the string of the time t.
IsoFormat(t) == <<t>>
FromIsoFormat(str) == str[1]

\* A dictionary with the key k set to e, and one without the keys in S.
Put(reg, k, e) == [x \in DOMAIN reg \cup {k} |-> IF x = k THEN e ELSE reg[x]]
Drop(reg, S) == [x \in DOMAIN reg \ S |-> reg[x]]
EmptyDict == [x \in {} |-> 0]

\* The `details` a caller hands to log_wallet_activity: a dictionary of
\* JSON values, one holding a datetime, one with a tuple for a key.
Details == {"json", "with_datetime", "with_tuple_key"}

\* json.dump(..., default=str) followed by json.load: a datetime comes back
\* as its string. A key that is not a str, int, float, bool or None makes
\* json.dump raise TypeError.
JsonDetails(d) == IF d = "with_datetime" THEN "with_str" ELSE d
JsonLog(log) ==
    [i \in 1..Len(log) |-> [log[i] EXCEPT !.details = JsonDetails(@)]]
JsonEntry(e) ==
    [e EXCEPT !.approved_actions = JsonLog(@),
              !.blocked_actions = JsonLog(@)]
JsonRoundTrip(reg) == [w \in DOMAIN reg |-> JsonEntry(reg[w])]
Dumpable(reg) ==
    \A w \in DOMAIN reg :
        /\ \A i \in 1..Len(reg[w].approved_actions) :
              reg[w].approved_actions[i].details # "with_tuple_key"
        /\ \A i \in 1..Len(reg[w].blocked_actions) :
              reg[w].blocked_actions[i].details # "with_tuple_key"

\* What happens to the file in _save_registry: open() raises and the file
\* stays as it was, or the file is truncated and the write or json.dump
\* raises part way, or the registry is written. The exception is printed
\* and not raised again.
DiskOutcomes == {"ok", "open_fails", "write_fails"}
NoFile == [state |-> "absent", wallets |-> EmptyDict]
SaveRegistry(reg, disk) ==
    IF disk = "open_fails" THEN registry_file
    ELSE IF disk = "write_fails" \/ ~Dumpable(reg)
         THEN [state |-> "partial", wallets |-> EmptyDict]
         ELSE [state |-> "json", wallets |-> JsonRoundTrip(reg)]

\* _load_registry: the wallets of the file, or of the empty default when
\* there is no file or json.load raises.
LoadRegistry(file) ==
    IF file.state = "json" THEN file.wallets ELSE EmptyDict

NoLogs == [approved |-> <<>>, blocked |-> <<>>]
NoRegOp ==
    [op |-> "none", wallet |-> "none", arg |-> 0, ret |-> "None",
     cleaned |-> 0]

InitRegistry ==
    /\ registry = EmptyDict
    /\ registry_file = NoFile
    /\ now = 0
    /\ regHist = [w \in Wallets |-> NoLogs]
    /\ regOp = NoRegOp
    /\ regCalls = 0

\* One more operation is called.
RegCall(op, wallet, arg, ret, cleaned) ==
    /\ regCalls < MaxRegCalls
    /\ regCalls' = regCalls + 1
    /\ regOp' = [op |-> op, wallet |-> wallet, arg |-> arg, ret |-> ret,
                 cleaned |-> cleaned]

\* WalletRegistry(): a new instance over the same file.
RegistryInit ==
    /\ registry' = LoadRegistry(registry_file)
    /\ regHist' =
           [w \in Wallets |->
               IF w \in DOMAIN registry'
               THEN [approved |-> registry'[w].approved_actions,
                     blocked |-> registry'[w].blocked_actions]
               ELSE NoLogs]
    /\ RegCall("__init__", "none", 0, "None", 0)
    /\ UNCHANGED <<registry_file, now>>
    /\ RegFrame

\* The clock advances by a day.
RegTick ==
    /\ now < MaxTime
    /\ now' = now + 1
    /\ UNCHANGED <<registry, registry_file, regHist, regOp, regCalls>>
    /\ RegFrame

\* The wallet_entry dictionary of register_wallet.
WalletEntry(wallet_address, permissions, t) ==
    [address |-> wallet_address, registered_at |-> IsoFormat(t),
     is_active |-> TRUE, permissions |-> permissions,
     last_activity |-> <<>>, activity_count |-> 0,
     approved_actions |-> <<>>, blocked_actions |-> <<>>]

\* The permission lists callers register wallets with.
RegPermissions == {<<"read">>, <<"read", "trade">>}

\* A register_wallet that keeps the entry of an address it already has and
\* sets only its permissions.
RegisterWalletKeepExisting(wallet_address, permissions, disk) ==
    /\ registry' =
           IF wallet_address \in DOMAIN registry
           THEN [registry EXCEPT ![wallet_address].permissions = permissions]
           ELSE Put(registry, wallet_address,
                    WalletEntry(wallet_address, permissions, now))
    /\ registry_file' = SaveRegistry(registry', disk)
    /\ regHist' = [regHist EXCEPT ![wallet_address] = NoLogs]
    /\ RegCall("register_wallet", wallet_address, 0, "True", 0)
    /\ UNCHANGED now
    /\ RegFrame

\* register_wallet(wallet_address, {"permissions": permissions}): the entry
\* of the address is a new wallet_entry, whether the address had one or
\* not; the exception of a failed save stays in _save_registry.
RegisterWallet(wallet_address, permissions, disk) ==
    /\ registry' =
           Put(registry, wallet_address,
               WalletEntry(wallet_address, permissions, now))
    /\ registry_file' = SaveRegistry(registry', disk)
    /\ regHist' = [regHist EXCEPT ![wallet_address] = NoLogs]
    /\ RegCall("register_wallet", wallet_address, 0, "True", 0)
    /\ UNCHANGED now
    /\ RegFrame

UpdateWalletPermissions(wallet_address, permissions, disk) ==
    /\ IF wallet_address \notin DOMAIN registry
       THEN /\ RegCall("update_wallet_permissions", wallet_address, 0,
                       "False", 0)
            /\ UNCHANGED <<registry, registry_file>>
       ELSE /\ registry' =
                   [registry EXCEPT
                       ![wallet_address].permissions = permissions]
            /\ registry_file' = SaveRegistry(registry', disk)
            /\ RegCall("update_wallet_permissions", wallet_address, 0,
                       "True", 0)
    /\ UNCHANGED <<now, regHist>>
    /\ RegFrame

DeactivateWallet(wallet_address, disk) ==
    /\ IF wallet_address \notin DOMAIN registry
       THEN /\ RegCall("deactivate_wallet", wallet_address, 0, "False", 0)
            /\ UNCHANGED <<registry, registry_file>>
       ELSE /\ registry' =
                   [registry EXCEPT ![wallet_address].is_active = FALSE]
            /\ registry_file' = SaveRegistry(registry', disk)
            /\ RegCall("deactivate_wallet", wallet_address, 0, "True", 0)
    /\ UNCHANGED <<now, regHist>>
    /\ RegFrame

\* The action_log dictionary of log_wallet_activity.
ActivityEntry(t, action, success, details) ==
    [timestamp |-> IsoFormat(t), action |-> action, success |-> success,
     details |-> details]

\* The first entries of a log instead of the last ones.
AppendKeepFirst(log, e, n) ==
    IF Len(log) + 1 > n THEN SubSeq(Append(log, e), 1, n) ELSE Append(log, e)

\* append, then keep the last n entries when there are more.
AppendKeep(log, e, n) ==
    IF Len(log) + 1 > n
    THEN SubSeq(Append(log, e), Len(log) + 2 - n, Len(log) + 1)
    ELSE Append(log, e)

RegActions == {"order", "cancel"}

LogWalletActivity(wallet_address, action, success, details, disk) ==
    /\ RegCall("log_wallet_activity", wallet_address, 0, "None", 0)
    /\ IF wallet_address \notin DOMAIN registry
       THEN UNCHANGED <<registry, registry_file, regHist>>
       ELSE LET e == ActivityEntry(now, action, success, details)
                wallet == registry[wallet_address]
                touched ==
                    [wallet EXCEPT !.last_activity = IsoFormat(now),
                                   !.activity_count = @ + 1]
            IN  /\ registry' =
                       [registry EXCEPT ![wallet_address] =
                           IF success
                           THEN [touched EXCEPT !.approved_actions =
                                    AppendKeep(@, e, ApprovedKept)]
                           ELSE [touched EXCEPT !.blocked_actions =
                                    AppendKeep(@, e, BlockedKept)]]
                /\ registry_file' = SaveRegistry(registry', disk)
                /\ regHist' =
                       [regHist EXCEPT ![wallet_address] =
                           IF success
                           THEN [@ EXCEPT !.approved = Append(@, e)]
                           ELSE [@ EXCEPT !.blocked = Append(@, e)]]
    /\ UNCHANGED now
    /\ RegFrame

\* wallets_to_remove of cleanup_expired_wallets, with every wallet up for
\* removal whether active or not.
WalletsToRemoveAnyway(reg, cutoff) ==
    {addr \in DOMAIN reg :
        IF reg[addr].last_activity # <<>>
        THEN FromIsoFormat(reg[addr].last_activity) < cutoff
        ELSE FromIsoFormat(reg[addr].registered_at) < cutoff}

\* wallets_to_remove of cleanup_expired_wallets.
WalletsToRemove(reg, cutoff) ==
    {addr \in DOMAIN reg :
        IF reg[addr].last_activity # <<>>
        THEN /\ FromIsoFormat(reg[addr].last_activity) < cutoff
             /\ ~reg[addr].is_active
        ELSE /\ ~reg[addr].is_active
             /\ reg[addr].registered_at # <<>>
             /\ FromIsoFormat(reg[addr].registered_at) < cutoff}

MaxAges == 0..2

CleanupExpiredWallets(max_age_days, disk) ==
    LET cutoff == now - max_age_days
        wallets_to_remove == WalletsToRemove(registry, cutoff)
        cleaned == Cardinality(wallets_to_remove)
    IN  /\ registry' = Drop(registry, wallets_to_remove)
        /\ registry_file' =
               IF cleaned > 0 THEN SaveRegistry(registry', disk)
               ELSE registry_file
        /\ regHist' =
               [w \in Wallets |->
                   IF w \in wallets_to_remove THEN NoLogs ELSE regHist[w]]
        /\ RegCall("cleanup_expired_wallets", "none", max_age_days, "None",
                   cleaned)
        /\ UNCHANGED now
        /\ RegFrame

\* The wallets of the files a caller imports: the export of a registry
\* that held one wallet, deactivated and never used.
ImportFiles ==
    {Put(EmptyDict, "0xB2",
         [WalletEntry("0xB2", <<"read">>, 0) EXCEPT !.is_active = FALSE])}

ImportRegistry(imported, disk) ==
    /\ registry' =
           [x \in DOMAIN registry \cup DOMAIN imported |->
               IF x \in DOMAIN imported THEN imported[x] ELSE registry[x]]
    /\ registry_file' = SaveRegistry(registry', disk)
    /\ regHist' =
           [w \in Wallets |->
               IF w \in DOMAIN imported
               THEN [approved |-> imported[w].approved_actions,
                     blocked |-> imported[w].blocked_actions]
               ELSE regHist[w]]
    /\ RegCall("import_registry", "none", 0, "True", 0)
    /\ UNCHANGED now
    /\ RegFrame

(***************************************************************************)
(* The asset directory of hyperliquid/types.py.                            *)
(***************************************************************************)

\* The ASSET_IDS dictionary display, entry by entry as it is written. A
\* key written more than once holds the value written last.
ASSET_IDS ==
    <<<<"BTC", 0>>, <<"ETH", 1>>, <<"SOL", 2>>, <<"ARB", 3>>, <<"APE", 4>>,
      <<"AVAX", 5>>, <<"BNB", 6>>, <<"DOGE", 7>>, <<"FTM", 8>>, <<"GMX", 9>>,
      <<"LINK", 10>>, <<"LTC", 11>>, <<"NEAR", 12>>, <<"OP", 13>>,
      <<"ORDI", 14>>, <<"PEPE", 15>>, <<"SHIB", 16>>, <<"SUI", 17>>,
      <<"SUSHI", 18>>, <<"TIA", 19>>, <<"TRX", 20>>, <<"UNI", 21>>,
      <<"WLD", 22>>, <<"XRP", 23>>, <<"ZKS", 24>>, <<"SEI", 25>>,
      <<"INJ", 26>>, <<"STX", 27>>, <<"FIL", 28>>, <<"ETC", 29>>,
      <<"CFX", 30>>, <<"ICP", 31>>, <<"APT", 32>>, <<"IMX", 33>>,
      <<"GALA", 34>>, <<"XLM", 35>>, <<"DOT", 36>>, <<"ADA", 37>>,
      <<"MATIC", 38>>, <<"ATOM", 39>>, <<"LDO", 40>>, <<"ONDO", 41>>,
      <<"ALT", 42>>, <<"JTO", 43>>, <<"ZRO", 44>>, <<"ENA", 45>>,
      <<"WIF", 46>>, <<"TIA", 47>>, <<"MERL", 48>>, <<"PYTH", 49>>,
      <<"REZ", 50>>, <<"STRK", 51>>, <<"TON", 52>>, <<"AXL", 53>>,
      <<"MYRO", 54>>, <<"MEW", 55>>, <<"AUCTION", 56>>, <<"RARI", 57>>,
      <<"BOME", 58>>, <<"PNUT", 59>>, <<"MOTHER", 60>>, <<"GRIFFAIN", 61>>,
      <<"AI16Z", 62>>, <<"FARTCOIN", 63>>, <<"GOAT", 64>>, <<"HYPER", 65>>,
      <<"TURBO", 66>>, <<"ZEREBRO", 67>>, <<"POPCAT", 68>>,
      <<"CUMMIES", 69>>, <<"S", 70>>, <<"AIXBT", 71>>, <<"SPX", 72>>,
      <<"KMNO", 73>>, <<"MOODENG", 74>>, <<"BANANA", 75>>, <<"PONKE", 76>>,
      <<"SSB", 77>>, <<"KAIA", 78>>, <<"CETUS", 79>>, <<"KAS", 80>>,
      <<"BEAM", 81>>, <<"CAKE", 82>>, <<"ENA", 83>>, <<"ENA", 84>>,
      <<"ENA", 85>>, <<"ENA", 86>>, <<"ENA", 87>>, <<"ENA", 88>>,
      <<"ENA", 89>>, <<"ENA", 90>>, <<"ENA", 91>>, <<"ENA", 92>>,
      <<"ENA", 93>>, <<"ENA", 94>>, <<"ENA", 95>>, <<"ENA", 96>>,
      <<"ENA", 97>>, <<"ENA", 98>>, <<"ENA", 99>>>>

SPOT_ASSET_OFFSET == 10000

\* The dictionaries inside get_asset_id and get_symbol_from_asset_id.
spot_indices == <<<<"PURR/USDC", 0>>, <<"HYPE/USDC", 1>>>>
spot_symbols == <<<<0, "PURR/USDC">>, <<1, "HYPE/USDC">>>>

\* The keys of a dictionary display and d.get(key, default).
DictKeys(d) == {d[i][1] : i \in 1..Len(d)}
DictGet(d, key, default) ==
    IF key \in DictKeys(d)
    THEN d[CHOOSE i \in 1..Len(d) :
               /\ d[i][1] = key
               /\ \A j \in (i + 1)..Len(d) : d[j][1] # key][2]
    ELSE default

\* The positions d.items() visits, in order: a key stands where it was
\* written first.
ItemPositions(d) ==
    {i \in 1..Len(d) : \A j \in 1..(i - 1) : d[j][1] # d[i][1]}

\* str.upper() on the symbols callers pass.
Upper(symbol) ==
    CASE symbol = "btc" -> "BTC"
      [] symbol = "eth" -> "ETH"
      [] OTHER -> symbol

get_asset_id(symbol, is_spot) ==
    IF is_spot
    THEN SPOT_ASSET_OFFSET + DictGet(spot_indices, symbol, 0)
    ELSE DictGet(ASSET_IDS, Upper(symbol), 0)

get_symbol_from_asset_id(asset_id) ==
    IF asset_id >= SPOT_ASSET_OFFSET
    THEN LET spot_index == asset_id - SPOT_ASSET_OFFSET
         IN  DictGet(spot_symbols, spot_index,
                     "SPOT_" \o ToString(spot_index))
    ELSE LET hits == {i \in ItemPositions(ASSET_IDS) :
                         DictGet(ASSET_IDS, ASSET_IDS[i][1], 0) = asset_id}
         IN  IF hits # {}
             THEN ASSET_IDS[CHOOSE i \in hits : \A j \in hits : i <= j][1]
             ELSE "UNKNOWN_" \o ToString(asset_id)

\* The symbols and ids callers look up: those written in the directory,
\* lower-case spellings, and some that are written nowhere.
SymbolInputs ==
    DictKeys(ASSET_IDS) \cup DictKeys(spot_indices)
        \cup {"btc", "eth", "NOPE", "NOPE/USDC"}
IdInputs ==
    (-1..100) \cup (SPOT_ASSET_OFFSET..(SPOT_ASSET_OFFSET + 2))

DirectoryCalls ==
    [fn : {"get_asset_id"}, symbol : SymbolInputs, is_spot : BOOLEAN,
     asset_id : {0}]
    \cup [fn : {"get_symbol_from_asset_id"}, symbol : {""},
          is_spot : {FALSE}, asset_id : IdInputs]

NoDirResult == [asset_id |-> 0, symbol |-> ""]

InitDirectory ==
    /\ dirPc = "idle"
    /\ dirCall = [fn |-> "none", symbol |-> "", is_spot |-> FALSE,
                  asset_id |-> 0]
    /\ dirResult = NoDirResult

\* A caller looks a symbol up and then looks the id it got up again.
GetAssetId ==
    /\ dirPc = "ready"
    /\ dirCall.fn = "get_asset_id"
    /\ LET id == get_asset_id(dirCall.symbol, dirCall.is_spot)
       IN  dirResult' =
               [asset_id |-> id, symbol |-> get_symbol_from_asset_id(id)]
    /\ dirPc' = "done"
    /\ UNCHANGED <<dirCall, decVars, sigVars, signingVars, ctorVars>>
    /\ PureFrame

\* A caller looks an id up and then looks the symbol it got up again, in
\* the namespace of the id.
GetSymbolFromAssetId ==
    /\ dirPc = "ready"
    /\ dirCall.fn = "get_symbol_from_asset_id"
    /\ LET symbol == get_symbol_from_asset_id(dirCall.asset_id)
       IN  dirResult' =
               [symbol |-> symbol,
                asset_id |->
                    get_asset_id(symbol,
                                 dirCall.asset_id >= SPOT_ASSET_OFFSET)]
    /\ dirPc' = "done"
    /\ UNCHANGED <<dirCall, decVars, sigVars, signingVars, ctorVars>>
    /\ PureFrame

(***************************************************************************)
(* The from_dict decoders of hyperliquid/types.py. A raw record gives each *)
(* key of the wire format one of three values: "ok" (present and well      *)
(* formed), "absent", or "malformed" (present, and not what the field      *)
(* holds: a price that is not a number, say).                              *)
(***************************************************************************)

FieldValues == {"ok", "absent", "malformed"}

\* How a decoder reads a key:
\*   "index"      data[k]
\*   "float"      float(data[k])
\*   "get"        data.get(k, default) and data.get(k)
\*   "float_get"  float(data.get(k, default))
\*   "float_if"   float(data[k]) if k in data else None
\*   "levels"     the price levels of L2Book: data.get("levels", []), each
\*                level read as [float(level[0]), float(level[1])]
\* The fields are in the order of the keyword arguments, which is the order
\* Python evaluates them in.
AssetInfoFields ==
    <<<<"name", "index">>, <<"szDecimals", "index">>,
      <<"maxLeverage", "get">>, <<"onlyIsolated", "get">>>>
OrderFields ==
    <<<<"coin", "index">>, <<"side", "index">>, <<"px", "float">>,
      <<"sz", "float">>, <<"oid", "index">>, <<"timestamp", "index">>,
      <<"tif", "get">>, <<"reduceOnly", "get">>>>
PositionFields ==
    <<<<"coin", "index">>, <<"szi", "float">>, <<"entryPx", "float">>,
      <<"unrealizedPnl", "float">>, <<"leverage", "float_get">>,
      <<"liquidationPx", "float_if">>, <<"maxLeverage", "get">>>>
TradeFields ==
    <<<<"coin", "index">>, <<"side", "index">>, <<"px", "float">>,
      <<"sz", "float">>, <<"time", "index">>, <<"fee", "float">>,
      <<"oid", "get">>, <<"tid", "get">>>>
L2BookFields ==
    <<<<"coin", "index">>, <<"levels", "levels">>, <<"time", "get">>>>
CandleFields ==
    <<<<"t", "index">>, <<"o", "float">>, <<"h", "float">>,
      <<"l", "float">>, <<"c", "float">>, <<"v", "float">>>>

Decoders == {"AssetInfo", "Order", "Position", "Trade", "L2Book", "Candle"}
FieldsOf(type) ==
    CASE type = "AssetInfo" -> AssetInfoFields
      [] type = "Order" -> OrderFields
      [] type = "Position" -> PositionFields
      [] type = "Trade" -> TradeFields
      [] type = "L2Book" -> L2BookFields
      [] type = "Candle" -> CandleFields
Keys(fields) == {fields[i][1] : i \in 1..Len(fields)}

\* What reading one key does: "value" (the field takes the value of the
\* key as it is), "default" (the key is absent and the field takes a
\* default), "KeyError" (raised with the key as its argument) or
\* "ValueError" (raised by float() with the text it could not convert).
ReadField(how, value) ==
    CASE value = "absent" ->
             IF how \in {"index", "float"} THEN "KeyError" ELSE "default"
      [] value = "malformed" ->
             IF how \in {"float", "float_get", "float_if", "levels"}
             THEN "ValueError"
             ELSE "value"
      [] OTHER -> "value"

\* A decoded record: the keys whose fields took a default and the keys
\* whose malformed value was taken as it is.
Decoded(defaulted, passed) ==
    [kind |-> "record", names |-> "", defaulted |-> defaulted,
     passed |-> passed]
\* An exception: KeyError names the key, ValueError names none.
Raised(kind, key) ==
    [kind |-> kind, names |-> IF kind = "KeyError" THEN key ELSE "",
     defaulted |-> {}, passed |-> {}]

\* from_dict: the fields are read one after the other, and the first
\* exception ends the call.
RECURSIVE ReadFields(_, _, _, _, _)
ReadFields(fields, i, data, defaulted, passed) ==
    IF i > Len(fields) THEN Decoded(defaulted, passed)
    ELSE LET key == fields[i][1]
             read == ReadField(fields[i][2], data[key])
         IN  IF read \in {"KeyError", "ValueError"} THEN Raised(read, key)
             ELSE ReadFields(fields, i + 1, data,
                     IF read = "default" THEN defaulted \cup {key}
                     ELSE defaulted,
                     IF data[key] = "malformed" THEN passed \cup {key}
                     ELSE passed)

from_dict(type, data) == ReadFields(FieldsOf(type), 1, data, {}, {})

\* The raw records callers decode.
DecodeCalls ==
    UNION {[type : {t}, data : [Keys(FieldsOf(t)) -> FieldValues]] :
              t \in Decoders}

NoDecoded == [kind |-> "none", names |-> "", defaulted |-> {}, passed |-> {}]

InitDecode ==
    /\ decPc = "idle"
    /\ decCall = [type |-> "none", data |-> <<>>]
    /\ decOut = NoDecoded

\* cls.from_dict(data) of the class `type`.
Decode(type) ==
    /\ decPc = "ready"
    /\ decCall.type = type
    /\ decOut' = from_dict(type, decCall.data)
    /\ decPc' = "done"
    /\ UNCHANGED <<decCall, dirVars, sigVars, signingVars, ctorVars>>
    /\ PureFrame

(***************************************************************************)
(* SignatureEngine: what is signed and what verify_signature accepts.      *)
(* The ECDSA of eth_account is kept symbolic: r and s of a signature name  *)
(* the digest they were made for, and recovery gives the engine's address  *)
(* for the signature of the digest and for its twin (r, n - s, the other   *)
(* recovery bit), and another address for everything else.                 *)
(***************************************************************************)

EngineAddress == "0xSELF"

\* An action dictionary: "" stands for a key the dictionary does not have.
Action(type, vaultAddress, destination, amount) ==
    [type |-> type, vaultAddress |-> vaultAddress,
     destination |-> destination, amount |-> amount,
     token |-> "", agentAddress |-> "", agentName |-> ""]

\* The actions callers sign.
SigActions ==
    {Action("order", "0xVAULT", "", ""), Action("usdSend", "", "0xDEST", "1")}
SigNonces == 1..MaxSigned

\* "key":"value" when the dictionary has the key, followed by a comma.
JsonItem(key, value) ==
    IF value = "" THEN "" ELSE "\"" \o key \o "\":\"" \o value \o "\","

\* json.dumps(action, separators=(",", ":"), sort_keys=True); every action
\* has a type, which sorts after the other keys but vaultAddress.
ActionJson(action) ==
    "{" \o JsonItem("agentAddress", action.agentAddress)
        \o JsonItem("agentName", action.agentName)
        \o JsonItem("amount", action.amount)
        \o JsonItem("destination", action.destination)
        \o JsonItem("token", action.token)
        \o "\"type\":\"" \o action.type \o "\""
        \o (IF action.vaultAddress = "" THEN ""
            ELSE ",\"vaultAddress\":\"" \o action.vaultAddress \o "\"")
        \o "}"

create_l1_message(action, nonce) ==
    IF action.vaultAddress # ""
    THEN EngineAddress \o action.vaultAddress \o ActionJson(action)
             \o ToString(nonce)
    ELSE EngineAddress \o ActionJson(action) \o ToString(nonce)

\* _create_typed_data: the primary type and the message of the typed data,
\* written out; the domain is the same for all. Other types raise.
create_typed_data(action, nonce) ==
    CASE action.type = "usdSend" ->
             "HyperliquidTransaction:UsdSend(Mainnet,0xa4b1,"
                 \o action.destination \o "," \o action.amount \o ","
                 \o ToString(nonce) \o ")"
      [] action.type = "withdraw3" ->
             "HyperliquidTransaction:Withdraw(Mainnet,0xa4b1,"
                 \o action.amount \o "," \o ToString(nonce) \o ")"
      [] action.type = "spotSend" ->
             "HyperliquidTransaction:SpotSend(Mainnet,"
                 \o action.destination \o "," \o action.token \o ","
                 \o action.amount \o "," \o ToString(nonce) \o ")"
      [] action.type = "approveAgent" ->
             "HyperliquidTransaction:ApproveAgent(Mainnet,0xa4b1,"
                 \o action.agentAddress \o "," \o action.agentName \o ","
                 \o ToString(nonce) \o ")"

\* What is hashed: encode_defunct(text=message) is the EIP-191 personal
\* message, sign_typed_data hashes the EIP-712 structure.
EncodeDefunct(text) == [scheme |-> "eip191", body |-> text]
EncodeTyped(typed_data) == [scheme |-> "eip712", body |-> typed_data]

\* r, s and the recovery bit of the engine's signature of a digest.
RValue(digest) == "r(" \o digest.scheme \o ":" \o digest.body \o ")"
SValue(digest) == "s(" \o digest.scheme \o ":" \o digest.body \o ")"
TwinS(sValue) == "n-" \o sValue
RecoveryBit(digest) == Len(digest.body) % 2

\* The signature dictionary sign_l1_action and sign_user_action return.
SignatureOf(digest) ==
    [r |-> RValue(digest), s |-> SValue(digest),
     v |-> 27 + RecoveryBit(digest)]

\* eth_account's to_standard_v: 0 and 1 as they are, 27 and 28 less 27,
\* from 35 on the parity above the chain id; <<>> when v is none of these.
StandardV(v) ==
    IF v \in {0, 1} THEN <<v>>
    ELSE IF v \in {27, 28} THEN <<v - 27>>
    ELSE IF v >= 35 THEN <<(v - 35) % 2>>
    ELSE <<>>

\* Account.recover_message: the address the signature recovers to, or
\* "raise".
RecoverMessage(digest, signature) ==
    LET bit == StandardV(signature.v)
    IN  IF bit = <<>> THEN "raise"
        ELSE IF \/ /\ signature.r = RValue(digest)
                   /\ signature.s = SValue(digest)
                   /\ bit[1] = RecoveryBit(digest)
                \/ /\ signature.r = RValue(digest)
                   /\ signature.s = TwinS(SValue(digest))
                   /\ bit[1] = 1 - RecoveryBit(digest)
             THEN EngineAddress
             ELSE "0xOTHER"

\* A value of r or s that int(.., 16) does not parse.
NotHex == "zz"

\* The body of the try of verify_signature raises: signature["r"],
\* signature["s"] or signature["v"] is missing, int(.., 16) fails, or
\* recover_message raises.
VerifyRaises(message, signature) ==
    \/ ~ ({"r", "s", "v"} \subseteq DOMAIN signature)
    \/ signature.r = NotHex
    \/ signature.s = NotHex
    \/ RecoverMessage(EncodeDefunct(message), signature) = "raise"

\* verify_signature(message, signature): any exception gives False.
verify_signature(message, signature) ==
    IF VerifyRaises(message, signature)
    THEN FALSE
    ELSE RecoverMessage(EncodeDefunct(message), signature) = EngineAddress

\* verify_signature without its except clause: the exception reaches the
\* caller.
VerifyCallNoExcept(message, signature) ==
    [ret |-> verify_signature(message, signature),
     raised |-> VerifyRaises(message, signature)]

\* A call of verify_signature: what it returns and whether it raised.
VerifyCall(message, signature) ==
    [ret |-> verify_signature(message, signature), raised |-> FALSE]

NoVerify ==
    [of |-> 0, message |-> "",
     signature |-> [r |-> "", s |-> "", v |-> 0], ret |-> FALSE,
     raised |-> FALSE]

InitSignatures ==
    /\ signed = <<>>
    /\ verified = NoVerify

\* sign_l1_action(action, nonce): the signature and what it was made for.
SignL1(action, nonce) ==
    /\ Len(signed) < MaxSigned
    /\ LET message == create_l1_message(action, nonce)
       IN  signed' =
               Append(signed,
                      [kind |-> "l1", action |-> action, nonce |-> nonce,
                       message |-> message,
                       signature |-> SignatureOf(EncodeDefunct(message))])
    /\ UNCHANGED <<verified, dirVars, decVars, signingVars, ctorVars>>
    /\ PureFrame

\* sign_user_action(action, nonce) of an action _create_typed_data knows.
SignUser(action, nonce) ==
    /\ Len(signed) < MaxSigned
    /\ action.type \in TypedDataTypes
    /\ LET typed_data == create_typed_data(action, nonce)
       IN  signed' =
               Append(signed,
                      [kind |-> "user", action |-> action, nonce |-> nonce,
                       message |-> typed_data,
                       signature |-> SignatureOf(EncodeTyped(typed_data))])
    /\ UNCHANGED <<verified, dirVars, decVars, signingVars, ctorVars>>
    /\ PureFrame

\* What a caller hands to verify_signature in place of a signature: the
\* signature as it is, or with r, s or v altered. An altered s is another
\* value or the twin n - s; an altered v is the other recovery bit
\* ("flip"), the same bit written as 0 or 1 ("low") or as 35 or 36
\* ("eip155"), or a value that is no v at all ("bad").
Alteration(r, s, v) == [r |-> r, s |-> s, v |-> v]
Alterations ==
    {Alteration("same", "same", "same"), Alteration("other", "same", "same"),
     Alteration("same", "other", "same"), Alteration("same", "twin", "same"),
     Alteration("same", "twin", "flip"), Alteration("same", "same", "flip"),
     Alteration("same", "same", "low"), Alteration("same", "same", "eip155"),
     Alteration("same", "same", "bad")}

\* Signatures that are not well formed: r or s that is not hex, or a
\* dictionary without one of its keys.
Malformations ==
    {Alteration("nothex", "same", "same"), Alteration("same", "nothex", "same"),
     Alteration("missing", "same", "same"),
     Alteration("same", "missing", "same"),
     Alteration("same", "same", "missing")}

AlteredValues(sig, alt) ==
    [r |-> CASE alt.r = "same" -> sig.r
             [] alt.r = "nothex" -> NotHex
             [] OTHER -> "r(other)",
     s |-> CASE alt.s = "same" -> sig.s
             [] alt.s = "twin" -> TwinS(sig.s)
             [] alt.s = "nothex" -> NotHex
             [] OTHER -> "s(other)",
     v |-> CASE alt.v = "same" -> sig.v
             [] alt.v = "flip" -> 55 - sig.v
             [] alt.v = "low" -> sig.v - 27
             [] alt.v = "eip155" -> sig.v + 8
             [] OTHER -> 29]
Altered(sig, alt) ==
    LET absent == {k \in {"r", "s", "v"} : alt[k] = "missing"}
    IN  IF absent = {}
        THEN AlteredValues(sig, alt)
        ELSE [k \in {"r", "s", "v"} \ absent |-> AlteredValues(sig, alt)[k]]

\* The messages a caller may hand to verify_signature: the L1 message and
\* the typed data of every action and nonce.
VerifyMessages ==
    {create_l1_message(a, n) : a \in SigActions, n \in SigNonces}
        \cup {create_typed_data(a, n) :
                 a \in {x \in SigActions : x.type \in TypedDataTypes},
                 n \in SigNonces}

\* verify_signature(message, signature) on the i-th signature made, as it
\* is or altered.
VerifySignature(i, message, alt) ==
    /\ i \in 1..Len(signed)
    /\ LET signature == Altered(signed[i].signature, alt)
           outcome == VerifyCall(message, signature)
       IN  verified' =
               [of |-> i, message |-> message, signature |-> signature,
                ret |-> outcome.ret, raised |-> outcome.raised]
    /\ UNCHANGED <<signed, dirVars, decVars, signingVars, ctorVars>>
    /\ PureFrame

(***************************************************************************)
(* hyperliquid.signing: the module-level sign_user_action, sign_l1_action  *)
(* and verify_signature. A dictionary is a function from its keys; the     *)
(* sha256 digest and the account's signature are kept symbolic, named by   *)
(* what they were made of.                                                 *)
(***************************************************************************)

Accounts == {"0xA11CE", "0xB0B"}

\* signature_dict.get(key): <<>> is None.
DictValue(d, key) == IF key \in DOMAIN d THEN <<d[key]>> ELSE <<>>

\* hashlib.sha256(json.dumps({"action": action, "nonce": nonce},
\* separators=(",", ":"), sort_keys=True).encode("utf-8")).digest().hex()
MessageHash(action, nonce) ==
    "sha256({\"action\":" \o ActionJson(action) \o ",\"nonce\":"
        \o ToString(nonce) \o "})"

\* account.sign_message(encode_defunct(primitive=message_hash)).signature
SignMessage(account, message_hash) ==
    "sig(" \o account \o "," \o message_hash \o ")"

\* Account().recover_message(encode_defunct(primitive=message_hash), ...)
RecoverSigner(message_hash, signature) ==
    IF \E a \in Accounts : signature = SignMessage(a, message_hash)
    THEN CHOOSE a \in Accounts : signature = SignMessage(a, message_hash)
    ELSE "0xOTHER"

\* sign_user_action(action, account, nonce) and sign_l1_action(action,
\* account, nonce) have the same body: the dictionary they return.
sign_action(action, account, nonce) ==
    [hash |-> MessageHash(action, nonce),
     signature |-> SignMessage(account, MessageHash(action, nonce)),
     sender |-> account]

\* verify_signature(action, signature_dict, expected_sender)
signing_verify_signature(action, signature_dict, expected_sender) ==
    IF /\ expected_sender # <<>>
       /\ expected_sender # <<"">>
       /\ DictValue(signature_dict, "sender") # expected_sender
    THEN FALSE
    ELSE LET nonce == DictValue(signature_dict, "nonce")
         IN  IF nonce = <<>> \/ nonce = <<0>>
             THEN FALSE
             ELSE LET message_hash == MessageHash(action, nonce[1])
                  IN  IF DictValue(signature_dict, "hash") # <<message_hash>>
                      THEN FALSE
                      ELSE IF ~ {"signature", "sender"}
                                    \subseteq DOMAIN signature_dict
                           THEN FALSE
                           ELSE RecoverSigner(message_hash,
                                              signature_dict.signature)
                                    = signature_dict.sender

NoSigned ==
    [by |-> "none", action |-> Action("", "", "", ""), account |-> "",
     nonce |-> 0, dict |-> [hash |-> "", signature |-> "", sender |-> ""]]
NoCheck ==
    [called |-> FALSE, action |-> Action("", "", "", ""),
     signature_dict |-> NoSigned.dict, expected_sender |-> <<>>,
     made |-> NoSigned, ret |-> FALSE]

InitSigning ==
    /\ sigDict = NoSigned
    /\ sigCheck = NoCheck

SigningFrame ==
    UNCHANGED <<engineVars, threadVars, permVars, gateVars, auditVars,
                logThreadVars, wsVars, infoVars, regVars, dirVars, decVars,
                sigVars, ctorVars>>

\* signing.sign_user_action(action, account, nonce)
SigningSignUserAction(action, account, nonce) ==
    /\ sigDict' =
           [by |-> "sign_user_action", action |-> action,
            account |-> account, nonce |-> nonce,
            dict |-> sign_action(action, account, nonce)]
    /\ UNCHANGED sigCheck
    /\ SigningFrame

\* signing.sign_l1_action(action, account, nonce)
SigningSignL1Action(action, account, nonce) ==
    /\ sigDict' =
           [by |-> "sign_l1_action", action |-> action,
            account |-> account, nonce |-> nonce,
            dict |-> sign_action(action, account, nonce)]
    /\ UNCHANGED sigCheck
    /\ SigningFrame

\* The dictionary with the key "nonce" added by the caller.
WithNonce(d, nonce) ==
    [k \in DOMAIN d \cup {"nonce"} |-> IF k = "nonce" THEN nonce ELSE d[k]]

ExpectedSenders == {<<>>} \cup {<<a>> : a \in Accounts}

\* signing.verify_signature(action, signature_dict, expected_sender) on the
\* dictionary the last sign call returned, as it is.
SigningVerifyReturned(action, expected_sender) ==
    /\ sigDict.by # "none"
    /\ sigCheck' =
           [called |-> TRUE, action |-> action,
            signature_dict |-> sigDict.dict,
            expected_sender |-> expected_sender, made |-> sigDict,
            ret |-> signing_verify_signature(action, sigDict.dict,
                                             expected_sender)]
    /\ UNCHANGED sigDict
    /\ SigningFrame

\* The same call on the dictionary after the caller has put a nonce in it.
SigningVerifyWithNonce(action, nonce, expected_sender) ==
    /\ sigDict.by # "none"
    /\ sigCheck' =
           [called |-> TRUE, action |-> action,
            signature_dict |-> WithNonce(sigDict.dict, nonce),
            expected_sender |-> expected_sender, made |-> sigDict,
            ret |-> signing_verify_signature(
                        action, WithNonce(sigDict.dict, nonce),
                        expected_sender)]
    /\ UNCHANGED sigDict
    /\ SigningFrame

(***************************************************************************)
(* SignatureEngine.__init__: the key comes from the argument or from the   *)
(* environment and is validated before the account is loaded. A key is     *)
(* written as its body and the blanks around it; None is <<>>.             *)
(***************************************************************************)

Key(pad, body) == [pad |-> pad, body |-> body]

PlaceholderKey == Key(0, "your_eth_private_key_here")
MinKeyLength == 64

\* Keys Account.from_key accepts: 32 bytes in hex, with or without 0x.
HexKeys ==
    {"4c0883a69102937d6231471b5dbb6204fe5129617082792ae468d01a3f362318",
     "0xb71c71a67e1177ad4e901695e1b4b9ee17ae16c6668d313eac2f96dbcda3f291"}

\* Keys a caller or the environment supplies: none, empty, the placeholder,
\* too short, long enough but not hex, blank-padded, and valid ones.
KeyValues ==
    {<<>>, <<Key(0, "")>>, <<PlaceholderKey>>,
     <<Key(0, "4c0883a69102937d6231471b5dbb6204fe5129617082792ae468d01a3f36231")>>,
     <<Key(0, "zz0883a69102937d6231471b5dbb6204fe5129617082792ae468d01a3f362318")>>,
     <<Key(1, "4c0883a69102937d6231471b5dbb6204fe5129617082792ae468d01a3f362318")>>}
        \cup {<<Key(0, k)>> : k \in HexKeys}

\* bool(key): None and the empty string are false.
Truthy(key) == key # <<>> /\ key[1].pad + Len(key[1].body) > 0

\* len(key.strip())
StripLen(key) == Len(key[1].body)

\* Account.from_key(key) returns an account: the key is hex of 32 bytes.
FromKeyAccepts(key) == key[1].pad = 0 /\ key[1].body \in HexKeys

\* The address of the account of a key.
AddressOf(key) == "address(" \o key[1].body \o ")"

\* self.private_key: the argument, or the environment without one.
ResolvedKey(private_key, env) ==
    IF Truthy(private_key) THEN private_key ELSE env

\* A constructor that validates nothing but the presence of a key.
ConstructionErrorPresenceOnly(key) ==
    IF ~Truthy(key) THEN "ValueError: not found" ELSE "none"

\* The ValueError __init__ raises for self.private_key, or "none".
ConstructionError(key) ==
    IF ~Truthy(key) THEN "ValueError: not found"
    ELSE IF key = <<PlaceholderKey>> \/ StripLen(key) < MinKeyLength
         THEN "ValueError: placeholder or invalid"
         ELSE IF ~FromKeyAccepts(key)
              THEN "ValueError: invalid format"
              ELSE "none"

\* The attributes __init__ has assigned when it ends with the given error.
AssignedAttributes(error) ==
    IF error = "none"
    THEN {"name", "version", "private_key", "account", "address",
          "current_nonce"}
    ELSE {"name", "version", "private_key"}

NoConstruction ==
    [called |-> FALSE, private_key |-> <<>>, key |-> <<>>,
     raised |-> "none", returned |-> FALSE, t |-> 0]

InitConstruction ==
    /\ environ = <<>>
    /\ instance = <<>>
    /\ constructed = NoConstruction

\* engine = SignatureEngine(private_key) at wall-clock time t: the caller
\* holds the new engine when __init__ returns, and what it held before
\* when __init__ raises.
Construct(private_key, t) ==
    LET key == ResolvedKey(private_key, environ)
        error == ConstructionError(key)
    IN  /\ constructed' =
               [called |-> TRUE, private_key |-> private_key, key |-> key,
                raised |-> error, returned |-> error = "none", t |-> t]
        /\ IF error = "none"
           THEN /\ instance' =
                       <<[private_key |-> key,
                          address |-> AddressOf(key),
                          attributes |-> AssignedAttributes(error)]>>
                /\ current_nonce' = t
                /\ issued' = <<>>
                /\ signedLog' = <<>>
                /\ lastOp' = NoOp
           ELSE UNCHANGED <<instance, engineVars>>
        /\ UNCHANGED <<environ, dirVars, decVars, sigVars, signingVars>>
        /\ EngineFrameOutsidePure

\* A call of the engine the caller holds.
EngineGetNextNonce ==
    /\ instance # <<>>
    /\ GetNextNonce

(***************************************************************************)
(* HyperliquidWebSocket: the connection, its receive, heartbeat and        *)
(* reconnect tasks, the tracked subscriptions and the callbacks. The       *)
(* client runs on one event loop: a step is the code between two awaits.   *)
(***************************************************************************)

\* The keys of self.callbacks.
Events ==
    {"trade", "l2Book", "orderUpdates", "user", "error", "connected",
     "disconnected"}

\* A finished task, and a task slot not in use. A running task is a
\* connect() coroutine, a _receive_loop ("rx") or a _heartbeat_loop ("hb").
DoneTask == [kind |-> "none", pc |-> "done", sock |-> 0]
TaskIds == 1..MaxTasks

Handles == {receive_task, heartbeat_task, reconnect_task}

\* Slots of finished tasks the client holds no reference to.
FreeIds == {i \in TaskIds : tasks[i] = DoneTask /\ i \notin Handles}
Lowest(S) == CHOOSE i \in S : \A j \in S : i <= j

\* not self._reconnect_task or self._reconnect_task.done()
IsDone(h) == h = 0 \/ tasks[h].pc = "done"

NoEmit == <<>>
NoFrame == [channel |-> "none", error |-> FALSE, decodes |-> FALSE]

InitWs ==
    /\ connected = FALSE
    /\ websocket = 0
    /\ reconnect_count = 0
    /\ subscriptions = {}
    /\ callbacks = [e \in Events |-> <<>>]
    /\ tasks = [i \in TaskIds |-> DoneTask]
    /\ receive_task = 0
    /\ heartbeat_task = 0
    /\ reconnect_task = 0
    /\ sockets = 0
    /\ sockOpen = {}
    /\ wire = <<>>
    /\ emitted = NoEmit
    /\ lastFrame = NoFrame
    /\ attempts = 0
    /\ closedByCaller = FALSE
    /\ subHist = <<>>

\* The calls _emit(event, data) makes: one to every callback of
\* self.callbacks[event], in list order.
Calls(event) ==
    [i \in 1..Len(callbacks[event]) |->
        [event |-> event, callback |-> callbacks[event][i]]]

\* _emit(event, data) for an event of the connection itself.
Emit(event) ==
    /\ emitted' = Calls(event)
    /\ lastFrame' = NoFrame

\* _handle_reconnect() up to its sleep, run by task t.
HandleReconnect(t) ==
    IF reconnect_count >= max_reconnects
    THEN /\ tasks' = [tasks EXCEPT ![t] = DoneTask]
         /\ UNCHANGED reconnect_count
    ELSE /\ reconnect_count' = reconnect_count + 1
         /\ tasks' = [tasks EXCEPT ![t] = [@ EXCEPT !.pc = "sleeping",
                                                   !.sock = 0]]

\* A caller awaits connect() on a client that has no connection and no
\* connect() or receive loop in progress.
WsConnect ==
    /\ ~connected
    /\ \A i \in TaskIds : tasks[i].kind \in {"none", "hb"}
    /\ FreeIds # {}
    /\ tasks' = [tasks EXCEPT ![Lowest(FreeIds)] =
                     [kind |-> "connect", pc |-> "connecting", sock |-> 0]]
    /\ closedByCaller' = FALSE
    /\ attempts' = 0
    /\ UNCHANGED <<connected, websocket, reconnect_count, subscriptions,
                   callbacks, receive_task, heartbeat_task, reconnect_task,
                   sockets, sockOpen, wire, emitted, lastFrame, subHist>>
    /\ WsFrame

\* connect(): websockets.connect returned a socket.
ConnectSucceeds(t) ==
    /\ tasks[t].kind = "connect" /\ tasks[t].pc = "connecting"
    /\ sockets < MaxSocks
    /\ Cardinality(FreeIds) >= 2
    /\ LET rx == Lowest(FreeIds)
           hb == Lowest(FreeIds \ {rx})
           sock == sockets + 1
       IN  /\ sockets' = sock
           /\ websocket' = sock
           /\ sockOpen' = sockOpen \cup {sock}
           /\ tasks' = [tasks EXCEPT
                           ![t] = DoneTask,
                           ![rx] = [kind |-> "rx", pc |-> "recv",
                                    sock |-> sock],
                           ![hb] = [kind |-> "hb", pc |-> "sleep",
                                    sock |-> 0]]
           /\ receive_task' = rx
           /\ heartbeat_task' = hb
    /\ connected' = TRUE
    /\ reconnect_count' = 0
    /\ attempts' = 0
    /\ Emit("connected")
    /\ UNCHANGED <<subscriptions, callbacks, reconnect_task, wire,
                   closedByCaller, subHist>>
    /\ WsFrame

\* connect(): websockets.connect raised.
ConnectFails(t) ==
    /\ tasks[t].kind = "connect" /\ tasks[t].pc = "connecting"
    /\ HandleReconnect(t)
    /\ UNCHANGED <<connected, websocket, subscriptions, callbacks,
                   receive_task, heartbeat_task, reconnect_task, sockets,
                   sockOpen, wire, emitted, lastFrame, attempts,
                   closedByCaller, subHist>>
    /\ WsFrame

\* _handle_reconnect() after its sleep, run by task t: a connect() task is
\* created unless the one _reconnect_task refers to has not finished.
ReconnectWake(t) ==
    /\ tasks[t].pc = "sleeping"
    /\ IF IsDone(reconnect_task)
       THEN /\ FreeIds # {}
            /\ LET new == Lowest(FreeIds)
               IN  /\ tasks' = [tasks EXCEPT
                                   ![t] = DoneTask,
                                   ![new] = [kind |-> "connect",
                                             pc |-> "connecting",
                                             sock |-> 0]]
                   /\ reconnect_task' = new
            /\ attempts' = attempts + 1
       ELSE /\ tasks' = [tasks EXCEPT ![t] = DoneTask]
            /\ UNCHANGED <<reconnect_task, attempts>>
    /\ UNCHANGED <<connected, websocket, reconnect_count, subscriptions,
                   callbacks, receive_task, heartbeat_task, sockets, sockOpen,
                   wire, emitted, lastFrame, closedByCaller, subHist>>
    /\ WsFrame

\* The server or the network closes a connection.
ServerCloses(s) ==
    /\ s \in sockOpen
    /\ sockOpen' = sockOpen \ {s}
    /\ UNCHANGED <<connected, websocket, reconnect_count, subscriptions,
                   callbacks, tasks, receive_task, heartbeat_task,
                   reconnect_task, sockets, wire, emitted, lastFrame,
                   attempts, closedByCaller, subHist>>
    /\ WsFrame

\* _receive_loop: recv() raised because the connection is closed.
RxSeesClose(t) ==
    /\ tasks[t].kind = "rx" /\ tasks[t].pc = "recv"
    /\ tasks[t].sock \notin sockOpen
    /\ IF connected
       THEN /\ connected' = FALSE
            /\ Emit("disconnected")
            /\ HandleReconnect(t)
       ELSE /\ tasks' = [tasks EXCEPT ![t] = DoneTask]
            /\ UNCHANGED <<connected, emitted, lastFrame, reconnect_count>>
    /\ UNCHANGED <<websocket, subscriptions, callbacks, receive_task,
                   heartbeat_task, reconnect_task, sockets, sockOpen, wire,
                   attempts, closedByCaller, subHist>>
    /\ WsFrame

\* _heartbeat_loop: the 30 s sleep is over; ping if connected, then the
\* loop condition.
HbWake(t) ==
    /\ tasks[t].kind = "hb" /\ tasks[t].pc = "sleep"
    /\ tasks' = IF connected /\ websocket # 0 /\ websocket \in sockOpen
                THEN tasks
                ELSE [tasks EXCEPT ![t] = DoneTask]
    /\ UNCHANGED <<connected, websocket, reconnect_count, subscriptions,
                   callbacks, receive_task, heartbeat_task, reconnect_task,
                   sockets, sockOpen, wire, emitted, lastFrame, attempts,
                   closedByCaller, subHist>>
    /\ WsFrame

\* disconnect(): the three tasks the client refers to are cancelled, the
\* socket is closed.
WsDisconnect ==
    /\ connected' = FALSE
    /\ tasks' = [i \in TaskIds |->
                    IF i \in Handles THEN DoneTask ELSE tasks[i]]
    /\ sockOpen' = sockOpen \ {websocket}
    /\ Emit("disconnected")
    /\ closedByCaller' = TRUE
    /\ UNCHANGED <<websocket, reconnect_count, subscriptions, callbacks,
                   receive_task, heartbeat_task, reconnect_task, sockets,
                   wire, attempts, subHist>>
    /\ WsFrame


(* Subscriptions *)

\* The subscription dictionaries callers pass; "" stands for a key the
\* dictionary does not have.
Subscriptions ==
    {[type |-> "trades", coin |-> "BTC", user |-> ""],
     [type |-> "trades", coin |-> "ETH", user |-> ""],
     [type |-> "l2Book", coin |-> "BTC", user |-> ""],
     [type |-> "orderUpdates", coin |-> "", user |-> "0xA1"]}

\* The key with the target left out.
SubKeyTypeOnly(sub) == <<sub.type>>

\* sub_key = f"{type}_{coin, or user when there is no coin}"
SubKey(sub) == <<sub.type, IF sub.coin # "" THEN sub.coin ELSE sub.user>>

\* self.subscriptions[sub_key] = subscription
Track(subs, sub) == {x \in subs : SubKey(x) # SubKey(sub)} \cup {sub}

\* self.subscriptions.pop(sub_key, None)
Untrack(subs, sub) == {x \in subs : SubKey(x) # SubKey(sub)}

\* The send of _subscribe / unsubscribe goes through: the client believes
\* it is connected and the socket is open.
CanSend == connected /\ websocket # 0 /\ websocket \in sockOpen

LastTwo(h) == IF Len(h) > 2 THEN Tail(h) ELSE h

Recorded(op, sub, ok) ==
    subHist' = LastTwo(Append(subHist,
                   [op |-> op, sub |-> sub, ok |-> ok,
                    before |-> subscriptions, sent |-> Len(wire)]))

\* _subscribe(subscription)
Subscribe(sub) ==
    /\ Len(wire) < MaxWire
    /\ IF CanSend
       THEN /\ wire' = Append(wire, [sock |-> websocket,
                                     method |-> "subscribe", sub |-> sub])
            /\ subscriptions' = Track(subscriptions, sub)
       ELSE UNCHANGED <<wire, subscriptions>>
    /\ Recorded("subscribe", sub, CanSend)
    /\ UNCHANGED <<connected, websocket, reconnect_count, callbacks, tasks,
                   receive_task, heartbeat_task, reconnect_task, sockets,
                   sockOpen, emitted, lastFrame, attempts, closedByCaller>>
    /\ WsFrame

\* unsubscribe(subscription)
Unsubscribe(sub) ==
    /\ Len(wire) < MaxWire
    /\ IF CanSend
       THEN /\ wire' = Append(wire, [sock |-> websocket,
                                     method |-> "unsubscribe", sub |-> sub])
            /\ subscriptions' = Untrack(subscriptions, sub)
       ELSE UNCHANGED <<wire, subscriptions>>
    /\ Recorded("unsubscribe", sub, CanSend)
    /\ UNCHANGED <<connected, websocket, reconnect_count, callbacks, tasks,
                   receive_task, heartbeat_task, reconnect_task, sockets,
                   sockOpen, emitted, lastFrame, attempts, closedByCaller>>
    /\ WsFrame

(* Callbacks and inbound frames *)

CallbackIds == {"f", "g"}

\* The channels _handle_message routes.
Channels == {"trades", "l2Book", "orderUpdates", "user"}

\* An inbound frame: its "channel" field ("none" when it has none, "other"
\* for a channel the client does not know), whether it has an "error"
\* field, and whether Trade.from_dict / L2Book.from_dict accept its data.
Frames ==
    {fr \in [channel : Channels \cup {"other", "none"}, error : BOOLEAN,
             decodes : BOOLEAN] :
        fr.channel \notin {"trades", "l2Book"} => fr.decodes}

\* The event each channel's handler emits.
EventOf(channel) == IF channel = "trades" THEN "trade" ELSE channel

\* _handle_message with the error field looked at before the channel.
RouteEventErrorFirst(fr) ==
    IF fr.error THEN "error"
    ELSE IF fr.channel \in Channels /\ fr.decodes THEN EventOf(fr.channel)
    ELSE "none"

\* _handle_message and the _handle_* methods: the event a frame is emitted
\* as, "none" when nothing is emitted.
RouteEvent(fr) ==
    IF fr.channel # "none"
    THEN IF fr.channel \in Channels /\ fr.decodes
         THEN EventOf(fr.channel)
         ELSE "none"
    ELSE IF fr.error THEN "error"
    ELSE "none"

\* on(event, callback)
On(event, cb) ==
    /\ event \in Events => Len(callbacks[event]) < MaxCallbacks
    /\ callbacks' = IF event \in Events
                    THEN [callbacks EXCEPT ![event] = Append(@, cb)]
                    ELSE callbacks
    /\ UNCHANGED <<connected, websocket, reconnect_count, subscriptions,
                   tasks, receive_task, heartbeat_task, reconnect_task,
                   sockets, sockOpen, wire, emitted, lastFrame, attempts,
                   closedByCaller, subHist>>
    /\ WsFrame

\* list.remove(x): the first occurrence goes.
RECURSIVE RemoveFirst(_, _)
RemoveFirst(list, x) ==
    IF list = <<>> THEN <<>>
    ELSE IF Head(list) = x THEN Tail(list)
    ELSE <<Head(list)>> \o RemoveFirst(Tail(list), x)

\* off(event, callback)
Off(event, cb) ==
    /\ callbacks' = IF event \in Events
                    THEN [callbacks EXCEPT ![event] = RemoveFirst(@, cb)]
                    ELSE callbacks
    /\ UNCHANGED <<connected, websocket, reconnect_count, subscriptions,
                   tasks, receive_task, heartbeat_task, reconnect_task,
                   sockets, sockOpen, wire, emitted, lastFrame, attempts,
                   closedByCaller, subHist>>
    /\ WsFrame

\* _receive_loop: recv() returned a frame, _handle_message(frame).
RxReceives(t, fr) ==
    /\ tasks[t].kind = "rx" /\ tasks[t].pc = "recv"
    /\ tasks[t].sock \in sockOpen
    /\ emitted' = IF RouteEvent(fr) = "none" THEN NoEmit
                  ELSE Calls(RouteEvent(fr))
    /\ lastFrame' = fr
    /\ UNCHANGED <<connected, websocket, reconnect_count, subscriptions,
                   callbacks, tasks, receive_task, heartbeat_task,
                   reconnect_task, sockets, sockOpen, wire, attempts,
                   closedByCaller, subHist>>
    /\ WsFrame

(* Callbacks that raise *)

\* The calls _emit(event, data) makes when the callbacks in `failing` raise
\* an Exception: the try around each call logs the exception and the loop
\* over the callbacks goes on.
Delivered(event, failing) ==
    [i \in 1..Len(callbacks[event]) |->
        [event |-> event, callback |-> callbacks[event][i],
         raised |-> callbacks[event][i] \in failing]]

\* _handle_message with an _emit that has no try: the exception ends the
\* loop over the callbacks; the except of a _handle_* method stops it, and
\* the one raised while an "error" frame is emitted leaves _handle_message.
HandleMessageNoTry(fr, failing) ==
    LET event == RouteEvent(fr)
        all == IF event = "none" THEN <<>> ELSE Delivered(event, failing)
        calls == IF \E i \in 1..Len(all) : all[i].raised
                 THEN SubSeq(all, 1,
                             CHOOSE i \in 1..Len(all) :
                                 /\ all[i].raised
                                 /\ \A j \in 1..(i - 1) : ~all[j].raised)
                 ELSE all
    IN  [calls |-> calls,
         escaped |-> /\ event = "error"
                     /\ \E i \in 1..Len(calls) : calls[i].raised]

\* _handle_message(frame) when the callbacks in `failing` raise: the calls
\* made, and whether an exception leaves _handle_message.
HandleMessage(fr, failing) ==
    LET event == RouteEvent(fr)
    IN  [calls |-> IF event = "none" THEN <<>>
                   ELSE Delivered(event, failing),
         escaped |-> FALSE]

\* _receive_loop: recv() returned a frame and _handle_message(frame) ran
\* with callbacks of which those in `failing` raise. An exception that
\* leaves _handle_message ends the loop, and the code after the loop takes
\* the connection for lost.
RxDelivers(t, fr, failing) ==
    /\ tasks[t].kind = "rx" /\ tasks[t].pc = "recv"
    /\ tasks[t].sock \in sockOpen
    /\ lastFrame' = fr
    /\ LET outcome == HandleMessage(fr, failing)
       IN  IF outcome.escaped /\ connected
           THEN /\ connected' = FALSE
                /\ emitted' = outcome.calls
                                  \o Delivered("disconnected", failing)
                /\ HandleReconnect(t)
           ELSE /\ emitted' = outcome.calls
                /\ tasks' = IF outcome.escaped
                            THEN [tasks EXCEPT ![t] = DoneTask]
                            ELSE tasks
                /\ UNCHANGED <<connected, reconnect_count>>
    /\ UNCHANGED <<websocket, subscriptions, callbacks, receive_task,
                   heartbeat_task, reconnect_task, sockets, sockOpen, wire,
                   attempts, closedByCaller, subHist>>
    /\ WsFrame


(***************************************************************************)
(* Specifications                                                          *)
(***************************************************************************)

\* One SignatureEngine used by one caller at a time.
NextEngine ==
    \/ GetNextNonce
    \/ \E n \in (0 - 1)..(MaxNonce - 1) : ResetNonce(n)
    \/ \E a \in NonceArgs, ok \in BOOLEAN : SignL1Action(a, ok)
    \/ \E a \in NonceArgs, ty \in UserActionTypes : SignUserAction(a, ty)
    \/ \E ok \in BOOLEAN : CreateOrderSignature(ok)
    \/ \E ty \in UserActionTypes : CreateTransferSignature(ty)

InitEngineSpec ==
    InitEngine /\ InitThreads /\ InitPermIdle /\ InitClient /\ InitAudit /\ InitWs /\ InitInfo
    /\ InitRegistry /\ InitDirectory /\ InitDecode /\ InitSignatures
    /\ InitSigning /\ InitConstruction
SpecEngine == InitEngineSpec /\ [][NextEngine]_vars

\* One SignatureEngine shared by threads.
NextThreads ==
    \E t \in Threads :
        TCall(t) \/ TRead(t) \/ TLoad(t) \/ TStore(t) \/ TReturn(t)

SpecThreads == InitEngineSpec /\ [][NextThreads]_vars

\* validate_action applied to one call.
NextPerm == Validate

InitPermSpec ==
    /\ InitEngine /\ current_nonce = 0 /\ InitThreads /\ InitPerm
    /\ InitClient /\ InitAudit /\ InitWs /\ InitInfo
    /\ InitRegistry /\ InitDirectory /\ InitDecode /\ InitSignatures
    /\ InitSigning /\ InitConstruction
SpecPerm == InitPermSpec /\ [][NextPerm]_vars

\* validate_action applied to one call under every grant list: orders and
\* transfers below and above the limits, and a size that is not a number.
InitGrantsSpec ==
    /\ InitEngine /\ current_nonce = 0 /\ InitThreads
    /\ InitClient /\ InitAudit /\ InitWs /\ InitInfo
    /\ InitRegistry /\ InitDirectory /\ InitDecode /\ InitSignatures
    /\ InitSigning /\ InitConstruction
    /\ global_risk_limits \in
           {l \in RiskLimitConfigs :
               /\ l.max_total_exposure = DefaultMaxTotalExposure
               /\ l.max_daily_loss = DefaultMaxDailyLoss}
    /\ call \in [wallet : {"0xA1"}, action : Actions,
                 params : [size : {Num(2500), Num(20000), Bad},
                           leverage : {Num(3), Absent},
                           amount : {Num(500), Num(1001)}],
                 grants : GrantLists]
    /\ result = NoVerdict
    /\ vpc = "ready"
SpecGrants == InitGrantsSpec /\ [][NextPerm]_vars

\* validate_action applied to one call, with or without params and grants.
NextPermAny == ValidateAny

InitPermAnySpec ==
    /\ InitEngine /\ current_nonce = 0 /\ InitThreads /\ InitPermAny
    /\ InitClient /\ InitAudit /\ InitWs /\ InitInfo
    /\ InitRegistry /\ InitDirectory /\ InitDecode /\ InitSignatures
    /\ InitSigning /\ InitConstruction
SpecPermAny == InitPermAnySpec /\ [][NextPermAny]_vars

\* The client, the controller and their caller.
NextGate ==
    \/ ClientStart
    \/ ClientClose
    \/ \E req \in Requests, rsp \in Responses : PlaceOrder(req, rsp)
    \/ \E req \in Requests, rsp \in Responses : CancelOrder(req, rsp)
    \/ \E req \in Requests, rsp \in Responses : ModifyOrder(req, rsp)
    \/ \E req \in Requests, rsp \in Responses : UpdateLeverage(req, rsp)
    \/ \E req \in Requests, rsp \in Responses : UsdSend(req, rsp)
    \/ \E req \in Requests,
          g \in {<<"read_only">>, <<"trading">>, <<"full_access">>} :
          CallerValidates(req, g)

InitGateSpec ==
    /\ InitEngine /\ current_nonce = 0 /\ InitThreads /\ InitPermIdle
    /\ InitClient /\ InitAudit /\ InitWs /\ InitInfo
    /\ InitRegistry /\ InitDirectory /\ InitDecode /\ InitSignatures
    /\ InitSigning /\ InitConstruction
SpecGate == InitGateSpec /\ [][NextGate]_vars

\* The controller's log under validate_action, log_action and
\* emergency_stop calls for two wallets.
NextAudit ==
    \/ \E w \in Wallets, c \in AuditCalls :
          ValidateActionCall(w, c.action, AuditCallParams, c.grants)
    \/ \E w \in Wallets : EmergencyStop(w)
    \/ \E w \in Wallets :
          LogAction(w, "none", "place_order", LogParams(1, 0),
                    [success |-> TRUE])

SpecAudit == InitGateSpec /\ [][NextAudit]_vars

\* The daily statistics under log_action calls spread over several days.
NextStats ==
    \/ \E e \in StatsInputs :
          LogAction("0xA1", "none", e.action, e.params,
                    [success |-> e.success])
    \/ DayRolls

SpecStats == InitGateSpec /\ [][NextStats]_vars

\* Threads calling log_action on one controller.
NextLogThreads ==
    \/ \E t \in Threads : LAppend(t)
    \/ \E t \in Threads : LLoadTrades(t)
    \/ \E t \in Threads : LStoreTrades(t)
    \/ \E t \in Threads : LLoadVolume(t)
    \/ \E t \in Threads : LStoreVolume(t)
    \/ \E t \in Threads : LTrimCheck(t)
    \/ \E t \in Threads : LTrimStore(t)

SpecLogThreads == InitGateSpec /\ [][NextLogThreads]_vars

\* The streaming client over connects, drops, reconnects and disconnects,
\* with one subscription.
NextWs ==
    \/ WsConnect
    \/ \E t \in TaskIds : ConnectSucceeds(t)
    \/ \E t \in TaskIds : ConnectFails(t)
    \/ \E t \in TaskIds : ReconnectWake(t)
    \/ \E k \in 1..MaxSocks : ServerCloses(k)
    \/ \E t \in TaskIds : RxSeesClose(t)
    \/ \E t \in TaskIds : HbWake(t)
    \/ WsDisconnect
    \/ Subscribe([type |-> "trades", coin |-> "BTC", user |-> ""])

SpecWs == InitGateSpec /\ [][NextWs]_vars

\* The streaming client left to itself: the caller connects and never
\* disconnects, connections are refused or dropped.
NextWsRetry ==
    \/ WsConnect
    \/ \E t \in TaskIds : ConnectSucceeds(t)
    \/ \E t \in TaskIds : ConnectFails(t)
    \/ \E t \in TaskIds : ReconnectWake(t)
    \/ \E k \in 1..MaxSocks : ServerCloses(k)
    \/ \E t \in TaskIds : RxSeesClose(t)
    \/ \E t \in TaskIds : HbWake(t)

SpecWsRetry == InitGateSpec /\ [][NextWsRetry]_vars

\* The same client with a caller that may disconnect at any moment.
NextWsFinal ==
    \/ NextWsRetry
    \/ WsDisconnect

SpecWsFinal == InitGateSpec /\ [][NextWsFinal]_vars

\* The tracked subscriptions of a client that connects and whose
\* connection may be closed under it.
NextWsSubs ==
    \/ WsConnect
    \/ \E t \in TaskIds : ConnectSucceeds(t)
    \/ \E k \in 1..MaxSocks : ServerCloses(k)
    \/ \E sub \in Subscriptions : Subscribe(sub)
    \/ \E sub \in Subscriptions : Unsubscribe(sub)

SpecWsSubs == InitGateSpec /\ [][NextWsSubs]_vars

\* The registrations callers make and withdraw: two callbacks for trades,
\* one for user updates, one for errors, and one under "trades", which is
\* a channel and not an event.
Registrations ==
    {<<"trade", "f">>, <<"trade", "g">>, <<"user", "f">>, <<"error", "g">>,
     <<"trades", "f">>}

\* The callbacks of a connected client and the frames it receives.
NextWsDispatch ==
    \/ WsConnect
    \/ \E t \in TaskIds : ConnectSucceeds(t)
    \/ \E r \in Registrations : On(r[1], r[2])
    \/ \E r \in Registrations : Off(r[1], r[2])
    \/ \E t \in TaskIds, fr \in Frames : RxReceives(t, fr)

SpecWsDispatch == InitGateSpec /\ [][NextWsDispatch]_vars

\* Frames delivered to callbacks that may raise: a trades frame, a user
\* frame and an error frame.
DeliveredFrames ==
    {[channel |-> "trades", error |-> FALSE, decodes |-> TRUE],
     [channel |-> "user", error |-> FALSE, decodes |-> TRUE],
     [channel |-> "none", error |-> TRUE, decodes |-> TRUE]}

NextWsCallbacks ==
    \/ WsConnect
    \/ \E t \in TaskIds : ConnectSucceeds(t)
    \/ \E r \in Registrations : On(r[1], r[2])
    \/ \E t \in TaskIds, fr \in DeliveredFrames,
          failing \in SUBSET CallbackIds :
          RxDelivers(t, fr, failing)

SpecWsCallbacks == InitGateSpec /\ [][NextWsCallbacks]_vars

\* Overlapping callers of the info methods of one client.
NextInfo ==
    \/ ClientStart
    \/ ClientClose
    \/ \E c \in Callers : GetMeta(c)
    \/ \E c \in Callers, rsp \in InfoResponses : GetMetaReturns(c, rsp)
    \/ \E c \in Callers : GetSpotMeta(c)
    \/ \E c \in Callers, rsp \in InfoResponses : GetSpotMetaReturns(c, rsp)
    \/ \E c \in Callers, a \in AssetArgs : GetAssetInfo(c, a)
    \/ \E c \in Callers, rsp \in InfoResponses : GetAssetInfoReturns(c, rsp)
    \/ \E c \in Callers : GetAllMids(c)
    \/ \E c \in Callers, rsp \in InfoResponses : GetAllMidsReturns(c, rsp)
    \/ ClearCache

SpecInfo == InitGateSpec /\ [][NextInfo]_vars

\* The info methods and the exchange methods of one client, called one
\* after the other by one caller; one request of each exchange method.
FirstCaller == 1
ClientRequests == {r \in Requests : r.size \in {0, 2500}}

NextClient ==
    \/ ClientStart
    \/ ClientClose
    \/ GetMeta(FirstCaller)
    \/ \E rsp \in InfoResponses : GetMetaReturns(FirstCaller, rsp)
    \/ GetSpotMeta(FirstCaller)
    \/ \E rsp \in InfoResponses : GetSpotMetaReturns(FirstCaller, rsp)
    \/ \E a \in AssetArgs : GetAssetInfo(FirstCaller, a)
    \/ \E rsp \in InfoResponses : GetAssetInfoReturns(FirstCaller, rsp)
    \/ GetAllMids(FirstCaller)
    \/ \E rsp \in InfoResponses : GetAllMidsReturns(FirstCaller, rsp)
    \/ ClearCache
    \/ \E req \in ClientRequests, rsp \in Responses : PlaceOrder(req, rsp)
    \/ \E req \in ClientRequests, rsp \in Responses : CancelOrder(req, rsp)
    \/ \E req \in ClientRequests, rsp \in Responses : ModifyOrder(req, rsp)
    \/ \E req \in ClientRequests, rsp \in Responses :
          UpdateLeverage(req, rsp)
    \/ \E req \in ClientRequests, rsp \in Responses : UsdSend(req, rsp)

SpecClient == InitGateSpec /\ [][NextClient]_vars

\* A registry whose wallets log their activity: every kind of entry for
\* one wallet, one kind for the other.
RegLogCalls ==
    {<<"0xA1", "order", TRUE>>, <<"0xA1", "cancel", TRUE>>,
     <<"0xA1", "order", FALSE>>, <<"0xA1", "cancel", FALSE>>,
     <<"0xB2", "order", TRUE>>}

NextRegLog ==
    \/ \E w \in Wallets : RegisterWallet(w, <<"read">>, "ok")
    \/ \E c \in RegLogCalls :
          LogWalletActivity(c[1], c[2], c[3], "json", "ok")

SpecRegLog == InitGateSpec /\ [][NextRegLog]_vars

\* A registry whose wallets are deactivated, age and are cleaned up.
NextCleanup ==
    \/ \E w \in Wallets : RegisterWallet(w, <<"read">>, "ok")
    \/ \E w \in Wallets : DeactivateWallet(w, "ok")
    \/ \E w \in Wallets : LogWalletActivity(w, "order", TRUE, "json", "ok")
    \/ \E f \in ImportFiles : ImportRegistry(f, "ok")
    \/ \E d \in MaxAges : CleanupExpiredWallets(d, "ok")
    \/ RegTick

SpecCleanup == InitGateSpec /\ [][NextCleanup]_vars

\* A registry and its file, on a disk that may fail. The clock stands
\* still: the cleanup is called with a cutoff a day ahead of it.
NextPersist ==
    \/ RegistryInit
    \/ \E disk \in DiskOutcomes : RegisterWallet("0xA1", <<"read">>, disk)
    \/ \E disk \in DiskOutcomes :
          UpdateWalletPermissions("0xA1", <<"read", "trade">>, disk)
    \/ \E disk \in DiskOutcomes : DeactivateWallet("0xA1", disk)
    \/ \E d \in Details, disk \in DiskOutcomes :
          LogWalletActivity("0xA1", "order", TRUE, d, disk)
    \/ \E f \in ImportFiles, disk \in DiskOutcomes : ImportRegistry(f, disk)
    \/ \E disk \in DiskOutcomes : CleanupExpiredWallets(-1, disk)

SpecPersist == InitGateSpec /\ [][NextPersist]_vars

\* Wallets that are registered, used, deactivated and registered again,
\* with a file that cannot always be opened when a wallet is registered.
NextReRegister ==
    \/ \E w \in Wallets, disk \in {"ok", "open_fails"} :
          RegisterWallet(w, <<"read">>, disk)
    \/ \E w \in Wallets : DeactivateWallet(w, "ok")
    \/ \E w \in Wallets, success \in BOOLEAN :
          LogWalletActivity(w, "order", success, "json", "ok")

SpecReRegister == InitGateSpec /\ [][NextReRegister]_vars

\* Lookups in the asset directory: a caller chooses a lookup and makes it.
InitDirectorySpec ==
    /\ InitEngine /\ current_nonce = 0 /\ InitThreads /\ InitPermIdle
    /\ InitClient /\ InitAudit /\ InitWs /\ InitInfo /\ InitRegistry
    /\ InitDecode /\ InitSignatures /\ InitSigning /\ InitConstruction
    /\ dirPc = "ready"
    /\ dirCall \in DirectoryCalls
    /\ dirResult = NoDirResult

NextDirectory ==
    \/ GetAssetId
    \/ GetSymbolFromAssetId

SpecDirectory == InitDirectorySpec /\ [][NextDirectory]_vars

\* Decoding: a caller chooses a class and a raw record and decodes it.
InitDecodeSpec ==
    /\ InitEngine /\ current_nonce = 0 /\ InitThreads /\ InitPermIdle
    /\ InitClient /\ InitAudit /\ InitWs /\ InitInfo /\ InitRegistry
    /\ InitDirectory /\ InitSignatures /\ InitSigning /\ InitConstruction
    /\ decPc = "ready"
    /\ decCall \in DecodeCalls
    /\ decOut = NoDecoded

NextDecode ==
    \/ Decode("AssetInfo")
    \/ Decode("Order")
    \/ Decode("Position")
    \/ Decode("Trade")
    \/ Decode("L2Book")
    \/ Decode("Candle")

SpecDecode == InitDecodeSpec /\ [][NextDecode]_vars

\* An engine signs actions and its signatures are verified.
NextVerify ==
    \/ \E a \in SigActions, n \in SigNonces : SignL1(a, n)
    \/ \E a \in SigActions, n \in SigNonces : SignUser(a, n)
    \/ \E i \in 1..MaxSigned, m \in VerifyMessages, alt \in Alterations :
          VerifySignature(i, m, alt)

SpecVerify == InitGateSpec /\ [][NextVerify]_vars

\* An engine issues nonces and signs, and a caller verifies signatures that
\* are as signed, made for something else, or not well formed.
AnyAlterations ==
    Malformations
        \cup {Alteration("same", "same", "same"),
              Alteration("other", "same", "same"),
              Alteration("same", "same", "bad")}

NextVerifyAny ==
    \/ GetNextNonce
    \/ \E a \in SigActions : SignL1(a, 1)
    \/ \E i \in 1..MaxSigned, a \in SigActions,
          alt \in AnyAlterations :
          VerifySignature(i, create_l1_message(a, 1), alt)

SpecVerifyAny == InitGateSpec /\ [][NextVerifyAny]_vars

\* The signing module: a caller signs actions and verifies the dictionary.
NextSigning ==
    \/ \E a \in SigActions, acct \in Accounts, n \in SigNonces :
          SigningSignUserAction(a, acct, n)
    \/ \E a \in SigActions, acct \in Accounts, n \in SigNonces :
          SigningSignL1Action(a, acct, n)
    \/ \E a \in SigActions, e \in ExpectedSenders :
          SigningVerifyReturned(a, e)
    \/ \E a \in SigActions, n \in SigNonces, e \in ExpectedSenders :
          SigningVerifyWithNonce(a, n, e)

SpecSigning == InitGateSpec /\ [][NextSigning]_vars

\* Construction: the environment holds some key or none, a caller constructs
\* engines and uses the one it holds.
InitConstructSpec ==
    /\ InitEngine /\ current_nonce = 0 /\ InitThreads /\ InitPermIdle
    /\ InitClient /\ InitAudit /\ InitWs /\ InitInfo /\ InitRegistry
    /\ InitDirectory /\ InitDecode /\ InitSignatures /\ InitSigning
    /\ environ \in KeyValues
    /\ instance = <<>>
    /\ constructed = NoConstruction

NextConstruct ==
    \/ \E k \in KeyValues, t \in 0..MaxSeed : Construct(k, t)
    \/ EngineGetNextNonce

SpecConstruct == InitConstructSpec /\ [][NextConstruct]_vars


(***************************************************************************)
(* Properties of the SignatureEngine                                       *)
(***************************************************************************)

\* C1: the nonces one engine issues from its own counter (get_next_nonce,
\* create_order_signature, create_transfer_signature, sign_l1_action and
\* sign_user_action given no nonce), in call order and with reset_nonce
\* calls anywhere in between, are strictly increasing.
C1_IssuedStrictlyIncreasing ==
    \A i \in 1..(Len(issued) - 1) : issued[i] < issued[i + 1]

\* Two nonces issued with a reset that raised the counter in between, the
\* second of them by create_transfer_signature.
C1_Witness ==
    /\ Len(issued) >= 2
    /\ issued[2] > issued[1] + 1
    /\ lastOp.op = "create_transfer_signature"

\* C2: no nonce is reused: a signature made with an explicitly supplied
\* nonce carries a nonce above every nonce used before it (the call having
\* been rejected or the nonce clamped otherwise), and no later signature
\* carries a nonce that was supplied explicitly before.
C2_NoNonceReuse ==
    \A j \in 1..Len(signedLog) : \A i \in 1..(j - 1) :
        /\ signedLog[j].explicit => signedLog[j].nonce > signedLog[i].nonce
        /\ signedLog[i].explicit => signedLog[j].nonce # signedLog[i].nonce

\* C4: reset_nonce(n) never lowers the counter and leaves it above n; the
\* counter never decreases and stays above every nonce issued, so the next
\* nonce issued is above n and above every nonce issued before the reset.
C4_ResetNeverLowers ==
    /\ [][/\ current_nonce' >= current_nonce
          /\ lastOp'.op = "reset_nonce" => current_nonce' > lastOp'.arg[1]]_vars
    /\ [](\A i \in 1..Len(issued) : issued[i] < current_nonce)

\* reset_nonce was called with a value below a nonce already issued, and
\* the counter stayed above that nonce.
C4_Witness ==
    /\ lastOp.op = "reset_nonce"
    /\ Len(issued) >= 1
    /\ lastOp.arg[1] < issued[Len(issued)]
    /\ current_nonce > issued[Len(issued)]

\* C3: no two calls of concurrent callers of one engine obtain the same
\* nonce.
C3_NoDuplicateNonce ==
    \A t1 \in Threads, t2 \in Threads :
        \A i \in 1..Len(tgot[t1]), j \in 1..Len(tgot[t2]) :
            (t1 # t2 \/ i # j) => tgot[t1][i] # tgot[t2][j]

(***************************************************************************)
(* Properties of the client and the controller together                    *)
(***************************************************************************)

\* C5: every request the client has sent to the exchange endpoint is one
\* for which validate_action had returned allowed = true.
C5_DispatchOnlyAfterAllowed ==
    \A i \in 1..Len(posts) :
        posts[i].url = "exchange" => posts[i].req \in validatedOk


(***************************************************************************)
(* Properties of validate_action                                           *)
(***************************************************************************)

\* The call under validation, and what the prose of the policy says of it.
Done == vpc = "done"
CallSize == Get(call.params.size, 0)
CallLeverage == Get(call.params.leverage, 1)
CallAmount == Get(call.params.amount, 0)
NumericOrder == CallSize.kind = "num" /\ CallLeverage.kind = "num"
CallNotional == CallSize.val * CallLeverage.val
GrantSet(g) == {g[i] : i \in 1..Len(g)}
\* The action is in the union of the grants' action sets, or a grant
\* carries the wildcard.
PermittedByUnion(action, g) ==
    \/ action \in UNION {AllowedActions(l) : l \in GrantSet(g)}
    \/ \E l \in GrantSet(g) : "*" \in AllowedActions(l)
DefinedLevels == {"read_only", "trading", "full_access"}
OverExposure ==
    /\ call.action \in TradingActions
    /\ NumericOrder
    /\ CallNotional > global_risk_limits.max_total_exposure
CitesExposure ==
    /\ result.reason.kind = "exposure"
    /\ result.reason.nums
         = <<CallNotional, global_risk_limits.max_total_exposure>>

\* C6, as claimed: an order whose size * leverage exceeds max_total_exposure
\* is denied whatever the grants, with a reason that cites the requested
\* exposure and the limit.
C6_DeniedCitingExposure ==
    (Done /\ OverExposure) => (~result.allowed /\ CitesExposure)

\* C6, amended: such an order is denied whatever the grants; the reason
\* cites the requested exposure and the limit when the grants permit the
\* action, and is the "not permitted" reason when they do not.
C6_DeniedOverExposure ==
    (Done /\ OverExposure) =>
        /\ ~result.allowed
        /\ IF PermittedByUnion(call.action, call.grants)
           THEN CitesExposure
           ELSE result.reason.kind = "not_permitted"

\* grants [trading], max_total_exposure 50000, place_order(size 20000,
\* leverage 3): denied, citing 60000 against 50000.
C6_Witness ==
    /\ Done
    /\ call.action = "place_order"
    /\ call.grants = <<"trading">>
    /\ call.params.size = Num(20000) /\ call.params.leverage = Num(3)
    /\ global_risk_limits.max_total_exposure = DefaultMaxTotalExposure
    /\ ~result.allowed
    /\ result.reason = Reason("exposure", <<60000, 50000>>)

\* C7: place_order is denied, whatever its parameters, for a wallet whose
\* grants are all read_only, and allowed for a wallet holding a trading
\* grant whenever size * leverage does not exceed max_total_exposure.
C7_ReadOnlyDeniedTradingAllowed ==
    (Done /\ call.action = "place_order") =>
        /\ (call.grants # <<>> /\ GrantSet(call.grants) = {"read_only"})
              => ~result.allowed
        /\ ("trading" \in GrantSet(call.grants) /\ NumericOrder
            /\ CallNotional <= global_risk_limits.max_total_exposure)
              => result.allowed

\* A trading wallet's order of notional 40000 under the limit 50000 was
\* allowed.
C7_Witness ==
    /\ Done
    /\ call.action = "place_order"
    /\ call.grants = <<"trading">>
    /\ NumericOrder /\ CallNotional = 40000
    /\ global_risk_limits.max_total_exposure = DefaultMaxTotalExposure
    /\ result.allowed

\* C8: the permission step denies ("not permitted", blocked) exactly when
\* the action is not in the union of the grants' action sets and no grant
\* carries the wildcard; so a full_access grant permits every action, a tag
\* that is no level adds nothing, and a wallet with no defined grant is
\* denied every action.
C8_PermissionStepIsUnion ==
    Done =>
        /\ (~result.allowed /\ result.reason.kind = "not_permitted"
            /\ result.risk_level = "blocked")
              <=> ~PermittedByUnion(call.action, call.grants)
        /\ "full_access" \in GrantSet(call.grants)
              => result.reason.kind # "not_permitted"
        /\ GrantSet(call.grants) \cap DefinedLevels = {}
              => (~result.allowed /\ result.reason.kind = "not_permitted")
        /\ result.reason.kind = "not_permitted"
              <=> ~PermittedByUnion(call.action,
                      SelectSeq(call.grants, LAMBDA l : l \in DefinedLevels))

\* An action no level lists passed the permission step for a wallet with
\* the grants [read, full_access].
C8_Witness ==
    /\ Done
    /\ call.action = "liquidate_all"
    /\ call.grants = <<"read", "full_access">>
    /\ result.allowed

\* C9, as claimed: a withdrawal by a wallet whose grants permit it is
\* returned with requires_ai_confirmation = true, for every amount.
C9_WithdrawAlwaysFlagged ==
    (Done /\ call.action = "withdraw"
          /\ PermittedByUnion("withdraw", call.grants))
        => (result.has_confirmation /\ result.requires_ai_confirmation)

\* C9, amended: with require_ai_confirmation enabled, such a withdrawal is
\* returned allowed with requires_ai_confirmation = true for every numeric
\* amount that does not exceed max_daily_loss (a missing amount being 0);
\* one whose amount exceeds max_daily_loss is denied and carries no
\* requires_ai_confirmation.
C9_WithdrawFlaggedWithinLimit ==
    (Done /\ call.action = "withdraw"
          /\ PermittedByUnion("withdraw", call.grants)
          /\ CallAmount.kind = "num") =>
        /\ (global_risk_limits.require_ai_confirmation
            /\ CallAmount.val <= global_risk_limits.max_daily_loss)
              => (result.allowed /\ result.has_confirmation
                  /\ result.requires_ai_confirmation)
        /\ CallAmount.val > global_risk_limits.max_daily_loss
              => (~result.allowed /\ ~result.has_confirmation
                  /\ result.reason.kind = "daily_limit")

\* A full_access wallet's withdrawal of 500 under the limit 1000 came back
\* allowed and flagged.
C9_Witness ==
    /\ Done
    /\ call.action = "withdraw"
    /\ call.grants = <<"full_access">>
    /\ call.params.amount = Num(500)
    /\ global_risk_limits.max_daily_loss = DefaultMaxDailyLoss
    /\ result.allowed /\ result.requires_ai_confirmation

PermittedOrderWithinExposure ==
    /\ call.action \in TradingActions
    /\ PermittedByUnion(call.action, call.grants)
    /\ NumericOrder
    /\ CallNotional <= global_risk_limits.max_total_exposure

\* C10, as claimed: a permitted order within max_total_exposure is returned
\* allowed, with requires_ai_confirmation true when its notional exceeds
\* 5000 and false when it does not.
C10_FlagFollowsThreshold ==
    (Done /\ PermittedOrderWithinExposure) =>
        /\ result.allowed /\ result.has_confirmation
        /\ result.requires_ai_confirmation
              <=> CallNotional > ConfirmationThreshold

\* C10, amended: as claimed when require_ai_confirmation is enabled; when
\* it is disabled the order is returned allowed with the flag false
\* whatever its notional.
C10_FlagFollowsThresholdWhenEnabled ==
    (Done /\ PermittedOrderWithinExposure) =>
        /\ result.allowed /\ result.has_confirmation
        /\ result.requires_ai_confirmation
              <=> (global_risk_limits.require_ai_confirmation
                   /\ CallNotional > ConfirmationThreshold)

\* An order of notional exactly 5000 came back allowed and not flagged
\* with require_ai_confirmation enabled.
C10_Witness ==
    /\ Done
    /\ call.action = "modify_order"
    /\ PermittedOrderWithinExposure
    /\ CallNotional = ConfirmationThreshold
    /\ global_risk_limits.require_ai_confirmation
    /\ result.allowed /\ result.has_confirmation
    /\ ~result.requires_ai_confirmation


\* The denial paths of validate_action, by the reason each one gives.
PermissionDenials == {"not_permitted"}
RiskDenials == {"exposure", "daily_limit", "risk_check_error"}
ErrorDenials == {"validation_error"}
RiskLevels == {"low", "medium", "high", "blocked"}

\* C14: every result of validate_action with allowed false carries a reason
\* and a risk level, on each denial path: permission denied, risk limit
\* exceeded, internal validation error.
C14_DenialCarriesReasonAndLevel ==
    (Done /\ ~result.allowed) =>
        /\ result.reason.kind
              \in PermissionDenials \cup RiskDenials \cup ErrorDenials
        /\ result.risk_level \in RiskLevels

\* A call that was permitted and within the limits was denied by the
\* handler of an internal error, with a reason and the level "blocked".
C14_Witness ==
    /\ Done
    /\ ~result.allowed
    /\ PermittedByUnion(call.action, call.grants)
    /\ result.reason.kind \in ErrorDenials
    /\ result.risk_level = "blocked"


(***************************************************************************)
(* Properties of the audit log, the daily statistics and the emergency     *)
(* stop                                                                    *)
(***************************************************************************)

\* C11: every validate_action call, allowed or denied, appends exactly one
\* entry to the audit log, an entry stamped with the time of the call and
\* carrying the call's wallet and action; the log keeps its newest entries
\* up to the retention bound.
C11_EveryValidationLogged ==
    [][(auditLast' # auditLast /\ auditLast'.op = "validate_action") =>
          /\ Len(logged') = Len(logged) + 1
          /\ logged'[Len(logged')].timestamp = today
          /\ logged'[Len(logged')].wallet_address = auditLast'.wallet
          /\ logged'[Len(logged')].action = auditLast'.action
          /\ action_log' =
                 LastEntries(Append(action_log, logged'[Len(logged')]),
                             LogRetention)]_vars

\* C12: a validate_action call made for a wallet after emergency_stop
\* returned true for that wallet returns allowed false; a call for any
\* other wallet returns what the permission and risk steps decide.
C12_StoppedWalletDenied ==
    auditLast.op = "validate_action" =>
        IF auditLast.wallet \in stopped
        THEN ~auditLast.ret
        ELSE auditLast.ret =
                 ValidateAction(global_risk_limits, auditLast.action,
                                AuditCallParams, auditLast.grants).allowed

\* The order actions _update_daily_stats counts as trades.
IsTrade(e) ==
    e.action \in {"place_order", "modify_order"} /\ e.result.success

RECURSIVE DayTrades(_, _)
DayTrades(log, day) ==
    IF log = <<>> THEN 0
    ELSE (IF Head(log).timestamp = day /\ IsTrade(Head(log)) THEN 1 ELSE 0)
         + DayTrades(Tail(log), day)

RECURSIVE DayVolume(_, _)
DayVolume(log, day) ==
    IF log = <<>> THEN 0
    ELSE (IF Head(log).timestamp = day /\ IsTrade(Head(log))
          THEN Head(log).params.size ELSE 0)
         + DayVolume(Tail(log), day)

RECURSIVE DayPnl(_, _)
DayPnl(log, day) ==
    IF log = <<>> THEN 0
    ELSE (IF Head(log).timestamp = day /\ Head(log).action = "close_position"
          THEN Head(log).params.pnl ELSE 0)
         + DayPnl(Tail(log), day)

RECURSIVE DayMaxLoss(_, _)
DayMaxLoss(log, day) ==
    IF log = <<>> THEN 0
    ELSE LET rest == DayMaxLoss(Tail(log), day)
         IN  IF Head(log).timestamp = day
                /\ Head(log).action = "close_position"
             THEN Min(rest, Head(log).params.pnl)
             ELSE rest

\* C13: after any sequence of log_action calls the date of daily_stats is
\* the day of the last call, and its totals are those of the actions
\* logged on that day alone: the counters were zeroed at the day's first
\* call, before that call was counted.
C13_StatsAreOfTheLastDay ==
    logged # <<>> =>
        /\ daily_stats.date = logged[Len(logged)].timestamp
        /\ daily_stats.total_trades = DayTrades(logged, daily_stats.date)
        /\ daily_stats.total_volume = DayVolume(logged, daily_stats.date)
        /\ daily_stats.total_pnl = DayPnl(logged, daily_stats.date)
        /\ daily_stats.max_loss = DayMaxLoss(logged, daily_stats.date)

\* A trade and a loss were counted on one day, and on a later day one
\* trade was logged: the statistics hold that one trade and no loss.
C13_Witness ==
    /\ daily_stats.date > 0
    /\ daily_stats.total_trades = 1
    /\ daily_stats.max_loss = 0
    /\ \E i, j \in 1..Len(logged) :
          /\ logged[i].timestamp < daily_stats.date /\ IsTrade(logged[i])
          /\ logged[j].timestamp < daily_stats.date
          /\ logged[j].action = "close_position" /\ logged[j].params.pnl < 0

\* C15: under every interleaving of concurrent log_action calls no update
\* is lost: once the calls have returned, total_trades is the number of
\* successful place_order / modify_order actions logged that day,
\* total_volume the sum of their sizes, and the audit log holds the logged
\* entries, the newest ones up to its retention bound.
C15_NoLostUpdate ==
    (\A t \in Threads : lpc[t] = "idle") =>
        /\ daily_stats.total_trades = DayTrades(logged, today)
        /\ daily_stats.total_volume = DayVolume(logged, today)
        /\ action_log = LastEntries(logged, LogRetention)

(***************************************************************************)
(* Properties of the streaming client                                      *)
(***************************************************************************)

\* No connect() and no receive loop is in progress: nothing will connect
\* the client again unless a caller does.
NothingPending == \A i \in TaskIds : tasks[i].kind \in {"none", "hb"}

\* The client lost or failed to get a connection and has stopped trying.
GaveUp ==
    /\ ~connected
    /\ ~closedByCaller
    /\ reconnect_count > 0
    /\ NothingPending

\* C16: reconnection is bounded: after a connection is lost or refused the
\* client makes at most max_reconnects reconnection attempts, and when it
\* has stopped trying it is in a failed state callers can tell from an
\* ordinary disconnected one (the attempt counter standing at
\* max_reconnects being the one mark the client has).
C16_BoundedThenFailed ==
    /\ attempts <= max_reconnects
    /\ GaveUp => reconnect_count >= max_reconnects

\* C17: once a reconnect has succeeded, every tracked subscription has been
\* sent as a subscribe message on the new connection.
C17_SubscriptionsReplayed ==
    (/\ connected /\ websocket \in sockOpen
     /\ reconnect_task # 0 /\ IsDone(reconnect_task)) =>
        \A sub \in subscriptions :
            \E i \in 1..Len(wire) :
                wire[i] = [sock |-> websocket, method |-> "subscribe",
                           sub |-> sub]

\* C18: over any sequence of drops and reconnects at most one receive loop
\* and at most one heartbeat loop are running: the heartbeat loop of a
\* connection whose receive loop has ended does not outlive it into the
\* next connection.
C18_OneLoopOfEachKind ==
    /\ Cardinality({i \in TaskIds : tasks[i].kind = "hb"}) <= 1
    /\ Cardinality({i \in TaskIds :
                       tasks[i].kind = "rx" /\ tasks[i].pc = "recv"}) <= 1

\* The calls among `calls` made for the event `event`, in order.
CallsFor(calls, event) == SelectSeq(calls, LAMBDA c : c.event = event)
CallsNotFor(calls, event) == SelectSeq(calls, LAMBDA c : c.event # event)

\* A step in which the receive loop handled a frame.
FrameHandled ==
    /\ lastFrame' # NoFrame
    /\ <<lastFrame', emitted'>> # <<lastFrame, emitted>>

\* C19, as claimed: every inbound frame whose channel is trades, l2Book,
\* orderUpdates or user is delivered exactly once to every callback
\* registered for that channel at that time, in registration order, and to
\* no callback of another channel; a frame with an error field is
\* delivered to the error callbacks.
C19_FramesReachTheirCallbacks ==
    [][FrameHandled =>
          /\ lastFrame'.channel \in Channels =>
                CallsNotFor(emitted', "error")
                    = Calls(EventOf(lastFrame'.channel))
          /\ lastFrame'.error => CallsFor(emitted', "error") = Calls("error")
      ]_vars

\* C19, amended: a frame whose channel is one of the four and whose data
\* decodes is delivered once per registration to the callbacks of that
\* channel's event, in registration order, and to no other callback; a
\* frame with an error field and no channel field is delivered to the error
\* callbacks; any other frame is delivered to nobody.
C19_DecodedFramesReachTheirCallbacks ==
    [][FrameHandled =>
          emitted' =
              IF lastFrame'.channel \in Channels /\ lastFrame'.decodes
              THEN Calls(EventOf(lastFrame'.channel))
              ELSE IF lastFrame'.channel = "none" /\ lastFrame'.error
              THEN Calls("error")
              ELSE <<>>
      ]_vars

\* A trades frame was delivered to the two callbacks registered for trades,
\* g before f as they were registered, while callbacks for user updates and
\* for errors were registered and not called.
C19_Witness ==
    /\ lastFrame = [channel |-> "trades", error |-> FALSE, decodes |-> TRUE]
    /\ emitted = <<[event |-> "trade", callback |-> "g"],
                   [event |-> "trade", callback |-> "f"]>>
    /\ callbacks["trade"] = <<"g", "f">>
    /\ callbacks["user"] # <<>>
    /\ callbacks["error"] # <<>>

\* The tracked set and the number of messages sent after the i-th recorded
\* subscribe / unsubscribe call.
TrackedAfter(i) ==
    IF i < Len(subHist) THEN subHist[i + 1].before ELSE subscriptions
SentAfter(i) ==
    IF i < Len(subHist) THEN subHist[i + 1].sent ELSE Len(wire)

\* A successful subscribe leaves exactly the entry of its key added (one
\* entry, also when the key was tracked already); a successful unsubscribe
\* removes the entry and sends one unsubscribe message; a failed call
\* changes and sends nothing.
SubscribeAddsUnsubscribeRemoves ==
    \A i \in 1..Len(subHist) :
        LET h == subHist[i]
        IN  /\ (h.ok /\ h.op = "subscribe") =>
                  /\ TrackedAfter(i) = h.before \cup {h.sub}
                  /\ SentAfter(i) = h.sent + 1
                  /\ wire[h.sent + 1].method = "subscribe"
                  /\ wire[h.sent + 1].sub = h.sub
            /\ (h.ok /\ h.op = "unsubscribe") =>
                  /\ TrackedAfter(i) = h.before \ {h.sub}
                  /\ SentAfter(i) = h.sent + 1
                  /\ wire[h.sent + 1].method = "unsubscribe"
                  /\ wire[h.sent + 1].sub = h.sub
            /\ ~h.ok =>
                  /\ TrackedAfter(i) = h.before
                  /\ SentAfter(i) = h.sent

\* The last two calls were a successful subscribe and a successful
\* unsubscribe of the same subscription.
SubscribedThenUnsubscribed ==
    /\ Len(subHist) = 2
    /\ subHist[1].op = "subscribe" /\ subHist[1].ok
    /\ subHist[2].op = "unsubscribe" /\ subHist[2].ok
    /\ subHist[2].sub = subHist[1].sub

\* C20, as claimed: subscriptions are tracked by type and coin/user, a
\* successful subscribe adds one entry under the key, unsubscribe removes
\* it and sends one unsubscribe message, and subscribe followed by
\* unsubscribe of the same subscription restores the tracked set.
C20_SubscribeUnsubscribeRestores ==
    /\ SubscribeAddsUnsubscribeRemoves
    /\ SubscribedThenUnsubscribed => subscriptions = subHist[1].before

\* C20, amended: as claimed, the round trip restoring the tracked set when
\* the subscription was not tracked before the subscribe; when it was, the
\* round trip leaves the set without it.
C20_SubscribeUnsubscribeRestoresFresh ==
    /\ SubscribeAddsUnsubscribeRemoves
    /\ SubscribedThenUnsubscribed =>
          subscriptions = subHist[1].before \ {subHist[1].sub}

\* With another subscription tracked, a subscription that was not tracked
\* was subscribed and then unsubscribed, and the tracked set is what it was.
C20_Witness ==
    /\ SubscribedThenUnsubscribed
    /\ subHist[1].sub \notin subHist[1].before
    /\ subHist[1].before # {}
    /\ subscriptions = subHist[1].before
    /\ Len(wire) = 3

(***************************************************************************)
(* Properties of the info methods and the metadata caches                  *)
(***************************************************************************)

\* C21: between two clear_cache() calls the exchange metadata and the spot
\* metadata are each fetched from the network at most once, whatever
\* get_meta / get_spot_meta / get_asset_info calls are made and however
\* they overlap.
C21_FetchedAtMostOnce ==
    /\ metaFetched <= 1
    /\ spotFetched <= 1

\* The caches and what was fetched into them.
cacheVars == <<meta_cache, spot_meta_cache, asset_info_cache, metaFetched,
               spotFetched>>

\* A step in which caller c's info call ends on an error of the network.
InfoCallFails(c) ==
    /\ cpc[c] # "idle"
    /\ cpc'[c] = "idle"
    /\ cnet'[c] \in InfoResponses \ {"ok"}

\* A step in which an exchange method raises the error of its POST.
ExchangeCallFails ==
    /\ posts' # posts
    /\ lastErr' # "none"

\* C22: the client never retries. A call of an info or exchange method
\* sends at most one POST; when the POST fails the call raises that same
\* error, sends nothing more and leaves the caches as they were.
C22_OnePostNoRetry ==
    [][/\ \A c \in Callers :
            /\ csent'[c] <= 1
            /\ InfoCallFails(c) =>
                   /\ cerr'[c] = cnet'[c]
                   /\ csent'[c] = csent[c]
                   /\ UNCHANGED cacheVars
       /\ Len(posts') <= Len(posts) + 1
       /\ ExchangeCallFails =>
              /\ lastErr' \in Responses
              /\ UNCHANGED cacheVars]_vars

\* An info call failed on an HTTP error after one POST with the metadata
\* cached before it, and an exchange call failed on a transport error.
C22_Witness ==
    /\ cpc[FirstCaller] = "idle"
    /\ csent[FirstCaller] = 1
    /\ cerr[FirstCaller] = "ClientResponseError"
    /\ meta_cache
    /\ Len(posts) >= 1
    /\ lastErr = "ClientError"

(***************************************************************************)
(* Properties of the WalletRegistry                                        *)
(***************************************************************************)

\* log holds the last `kept` entries of hist, in the order of hist.
HoldsLastOf(log, hist, kept) ==
    /\ Len(log) = Min(Len(hist), kept)
    /\ \A i \in 1..Len(log) : log[i] = hist[Len(hist) - Len(log) + i]

\* C23: after any sequence of log_wallet_activity calls a wallet's
\* approved-actions log holds at most ApprovedKept (100) entries and its
\* blocked-actions log at most BlockedKept (50), each exactly the most
\* recent entries of its kind in the order they were logged.
C23_LogsHoldTheMostRecent ==
    \A w \in DOMAIN registry :
        /\ Len(registry[w].approved_actions) <= ApprovedKept
        /\ Len(registry[w].blocked_actions) <= BlockedKept
        /\ HoldsLastOf(registry[w].approved_actions, regHist[w].approved,
                       ApprovedKept)
        /\ HoldsLastOf(registry[w].blocked_actions, regHist[w].blocked,
                       BlockedKept)

\* A wallet has logged more approved and more blocked actions than are
\* kept, and the oldest approved one, now dropped, differs from the oldest
\* kept.
C23_Witness ==
    \E w \in DOMAIN registry :
        /\ Len(regHist[w].approved) > ApprovedKept
        /\ Len(regHist[w].blocked) > BlockedKept
        /\ regHist[w].approved[1] # registry[w].approved_actions[1]

\* A step that is a call of cleanup_expired_wallets.
CleanupStep ==
    /\ regCalls' # regCalls
    /\ regOp'.op = "cleanup_expired_wallets"

\* When a wallet was last active, or registered if it never was.
LastSeen(data) ==
    IF data.last_activity # <<>>
    THEN FromIsoFormat(data.last_activity)
    ELSE FromIsoFormat(data.registered_at)

\* The inactive wallets last seen before the cutoff.
ExpiredWallets(reg, cutoff) ==
    {w \in DOMAIN reg : ~reg[w].is_active /\ LastSeen(reg[w]) < cutoff}

\* C24: cleanup_expired_wallets(max_age_days) removes exactly the wallets
\* that are inactive and were last active (registered, if never active)
\* before now - max_age_days; it removes no active and no newer wallet,
\* leaves the remaining entries as they were and returns the number of
\* wallets it removed.
C24_CleanupRemovesExactlyTheExpired ==
    [][CleanupStep =>
          LET gone == ExpiredWallets(registry, now - regOp'.arg)
          IN  /\ DOMAIN registry' = DOMAIN registry \ gone
              /\ \A w \in DOMAIN registry' : registry'[w] = registry[w]
              /\ regOp'.cleaned = Cardinality(gone)]_vars

\* A cleanup removed a wallet and left an active wallet that was last seen
\* before the cutoff.
C24_Witness ==
    /\ regOp.op = "cleanup_expired_wallets"
    /\ regOp.cleaned >= 1
    /\ \E w \in DOMAIN registry :
          /\ registry[w].is_active
          /\ LastSeen(registry[w]) < now - regOp.arg

\* The last operation changed the registry and reported success.
ChangedAndSucceeded ==
    \/ /\ regOp.op \in {"register_wallet", "update_wallet_permissions",
                         "deactivate_wallet", "import_registry"}
       /\ regOp.ret = "True"
    \/ /\ regOp.op = "log_wallet_activity"
       /\ regOp.wallet \in DOMAIN registry
    \/ /\ regOp.op = "cleanup_expired_wallets"
       /\ regOp.cleaned > 0

\* C25: after every operation that changes the registry and reports
\* success, the file holds the registry in memory: a registry constructed
\* afterwards loads the same wallets.
C25_FileHoldsTheRegistry ==
    ChangedAndSucceeded => LoadRegistry(registry_file) = registry

(***************************************************************************)
(* Properties of the asset directory                                       *)
(***************************************************************************)

\* The ids and the symbols written in the directory, by namespace.
PerpIds == {ASSET_IDS[i][2] : i \in 1..Len(ASSET_IDS)}
PerpSymbols == DictKeys(ASSET_IDS)
SpotIds == {SPOT_ASSET_OFFSET + spot_symbols[i][1] : i \in 1..Len(spot_symbols)}
SpotSymbols == DictKeys(spot_indices)

\* C26: get_asset_id and get_symbol_from_asset_id are inverses of each
\* other on the directory: looking up the symbol of a listed id gives the
\* id back, looking up the id of a listed symbol gives the symbol back, in
\* the perpetual and in the spot namespace, and no spot id is a perpetual
\* id.
C26_LookupsAreInverses ==
    /\ PerpIds \cap SpotIds = {}
    /\ dirPc = "done" =>
          /\ (/\ dirCall.fn = "get_symbol_from_asset_id"
              /\ dirCall.asset_id \in PerpIds \cup SpotIds)
                 => dirResult.asset_id = dirCall.asset_id
          /\ (/\ dirCall.fn = "get_asset_id"
              /\ dirCall.symbol \in
                     (IF dirCall.is_spot THEN SpotSymbols ELSE PerpSymbols))
                 => dirResult.symbol = dirCall.symbol

\* C27: the lookup of a symbol that is not in the directory returns a
\* value that is the id of no listed asset, and the lookup of an id that
\* is not in the directory returns a value that is the symbol of no listed
\* asset.
C27_UnknownIsDistinguishable ==
    dirPc = "done" =>
        /\ (/\ dirCall.fn = "get_asset_id"
            /\ IF dirCall.is_spot
               THEN dirCall.symbol \notin SpotSymbols
               ELSE Upper(dirCall.symbol) \notin PerpSymbols)
               => dirResult.asset_id \notin PerpIds \cup SpotIds
        /\ (/\ dirCall.fn = "get_symbol_from_asset_id"
            /\ dirCall.asset_id \notin PerpIds \cup SpotIds)
               => dirResult.symbol \notin PerpSymbols \cup SpotSymbols

(***************************************************************************)
(* Properties of the decoders                                              *)
(***************************************************************************)

\* The keys of the raw record that are absent or malformed.
FaultyKeys == {k \in DOMAIN decCall.data : decCall.data[k] # "ok"}

\* C28: decoding a raw record with a missing or malformed field fails
\* with an error that identifies the field; no decoder returns a record in
\* which an absent field was silently given a default.
C28_FaultyRecordsFailNamingTheField ==
    decPc = "done" =>
        /\ FaultyKeys # {} =>
               /\ decOut.kind # "record"
               /\ decOut.names \in FaultyKeys
        /\ decOut.kind = "record" => decOut.defaulted = {}

(***************************************************************************)
(* Properties of signing and verification                                  *)
(***************************************************************************)

\* C29: verify_signature accepts the signature sign_l1_action made when it
\* is given the message that was signed, and rejects it when the message
\* differs or when any of r, s, v is altered.
C29_VerifyAcceptsOnlyWhatWasSigned ==
    (verified.of # 0 /\ signed[verified.of].kind = "l1") =>
        verified.ret =
            (/\ verified.message = signed[verified.of].message
             /\ verified.signature = signed[verified.of].signature)

\* The messages that stand for the {action, nonce} pair of a signature.
PairMessages(e) ==
    {create_l1_message(e.action, e.nonce),
     create_typed_data(e.action, e.nonce)}

\* The i-th and the j-th signature are of the same usdSend action, signed
\* by sign_user_action with two sequential nonces.
SequentialUsdSends(i, j) ==
    /\ signed[i].kind = "user"
    /\ signed[j].kind = "user"
    /\ signed[i].action.type = "usdSend"
    /\ signed[j].action = signed[i].action
    /\ signed[j].nonce = signed[i].nonce + 1

\* C30: the same usdSend action signed with two sequential nonces gives
\* two different signatures, each valid for its own {action, nonce} pair
\* and invalid for the other when checked with verify_signature.
C30_SequentialSignaturesAreValidForTheirOwnPair ==
    \A i, j \in 1..Len(signed) :
        SequentialUsdSends(i, j) =>
            /\ signed[i].signature # signed[j].signature
            /\ \A k \in {i, j} :
                  (/\ verified.of = k
                   /\ verified.signature = signed[k].signature) =>
                      /\ verified.message \in PairMessages(signed[k])
                             => verified.ret
                      /\ verified.message \in
                             PairMessages(signed[i + j - k])
                             => ~verified.ret

(***************************************************************************)
(* hyperliquid.signing                                                     *)
(***************************************************************************)

\* C31: verify_signature(action, sig, signer) on the dictionary sig that
\* sign_user_action or sign_l1_action returned for (action, account, nonce)
\* returns true when the action is the signed one and the expected sender,
\* if given, is the account, and false for a different action or sender.
C31_ValidIffSignedPayload ==
    (/\ sigCheck.called
     /\ sigCheck.signature_dict = sigCheck.made.dict) =>
        sigCheck.ret =
            (/\ sigCheck.action = sigCheck.made.action
             /\ sigCheck.expected_sender
                    \in {<<>>, <<sigCheck.made.account>>})

(***************************************************************************)
(* SignatureEngine.verify_signature on any input                           *)
(***************************************************************************)

\* A signature verify_signature cannot read: a key is missing, r or s is
\* not hex, or v is no recovery value.
Malformed(signature) ==
    \/ ~ ({"r", "s", "v"} \subseteq DOMAIN signature)
    \/ signature.r = NotHex
    \/ signature.s = NotHex
    \/ StandardV(signature.v) = <<>>

\* C32: verify_signature never raises; for a signature with a missing key,
\* with r or s that is not hex or with an unrecoverable v it returns false;
\* and it leaves the nonce counter of the engine as it was.
C32_VerifyNeverRaises ==
    [][verified' # verified =>
           /\ ~verified'.raised
           /\ Malformed(verified'.signature) => ~verified'.ret
           /\ current_nonce' = current_nonce]_vars

\* A signature without its v has been verified, after the counter had been
\* advanced, and the call returned false.
C32_Witness ==
    /\ verified.of # 0
    /\ "v" \notin DOMAIN verified.signature
    /\ ~verified.ret
    /\ current_nonce > 0
    /\ issued # <<>>

(***************************************************************************)
(* SignatureEngine.__init__                                                *)
(***************************************************************************)

\* C33: constructing a SignatureEngine raises, and returns no instance,
\* when neither the argument nor the environment holds a key, when the key
\* is the placeholder and when Account.from_key rejects it; and an engine
\* that exists has the address of its key and its nonce counter assigned.
C33_ConstructionFailsOrYieldsAReadyEngine ==
    /\ constructed.called =>
           LET key == IF Truthy(constructed.private_key)
                      THEN constructed.private_key
                      ELSE environ
           IN  (\/ ~Truthy(key)
                \/ key = <<PlaceholderKey>>
                \/ ~FromKeyAccepts(key)) =>
                   /\ constructed.raised # "none"
                   /\ ~constructed.returned
    /\ instance # <<>> =>
           /\ FromKeyAccepts(instance[1].private_key)
           /\ instance[1].address = AddressOf(instance[1].private_key)
           /\ {"address", "current_nonce"} \subseteq instance[1].attributes

\* A caller that holds an engine whose counter has advanced has called the
\* constructor with the placeholder key, and the call raised.
C33_Witness ==
    /\ instance # <<>>
    /\ current_nonce > 0
    /\ constructed.called
    /\ constructed.key = <<PlaceholderKey>>
    /\ constructed.raised # "none"

(***************************************************************************)
(* Reconnection and disconnect() of the streaming client                   *)
(***************************************************************************)

\* C34: while attempts fail and reconnect_count is below max_reconnects the
\* client schedules a further attempt after the delay: whenever the delay
\* of _handle_reconnect is over, after a refused connect() as after a
\* dropped connection, a new connect() is started.
C34_EveryDelayEndsInAnAttempt ==
    [][\A t \in TaskIds :
           (tasks[t].pc = "sleeping" /\ tasks'[t].pc # "sleeping") =>
               \E n \in TaskIds :
                   /\ tasks[n] = DoneTask
                   /\ tasks'[n].kind = "connect"
                   /\ tasks'[n].pc = "connecting"]_vars

\* A task starts in the step: a connect(), a receive loop or a heartbeat
\* loop takes a slot that was free.
TaskStarts == \E i \in TaskIds : tasks[i] = DoneTask /\ tasks'[i] # DoneTask

\* C35: disconnect() is final: from its return until the caller's next
\* connect(), connected stays false and no connection attempt, receive loop
\* or heartbeat loop is started, also when disconnect() came during a
\* reconnect delay or an attempt.
C35_DisconnectIsFinal ==
    [][(closedByCaller /\ closedByCaller') =>
           (~connected' /\ ~TaskStarts)]_vars

(***************************************************************************)
(* Signing calls that fail                                                 *)
(***************************************************************************)

\* A sign_l1_action or sign_user_action call without a nonce raises in the
\* step.
FailedSignStep ==
    /\ lastOp'.op \in {"sign_l1_action", "sign_user_action"}
    /\ lastOp'.raised
    /\ lastOp'.arg = <<>>
    /\ lastOp' # lastOp \/ issued' # issued

\* C36: a signing call without a nonce that raises has advanced the counter
\* past the nonce it took, and no call takes from the counter a nonce that
\* an earlier call, failed or not, has taken.
C36_FailedSignConsumesNonce ==
    [][/\ FailedSignStep =>
              /\ current_nonce' = current_nonce + 1
              /\ issued' = Append(issued, current_nonce)
       /\ issued' # issued =>
              \A i \in 1..Len(issued) : issued[i] < issued'[Len(issued')]]_vars

\* sign_user_action without a nonce has raised on an unsupported type after
\* an earlier call took a nonce, and the counter stands past its nonce.
C36_Witness ==
    /\ lastOp.op = "sign_user_action"
    /\ lastOp.raised
    /\ lastOp.arg = <<>>
    /\ Len(issued) >= 2
    /\ current_nonce = issued[Len(issued)] + 1

(***************************************************************************)
(* validate_action on any input                                            *)
(***************************************************************************)

\* The arithmetic validate_action does for the action meets a value that is
\* not a number: size or leverage of an order or of update_leverage, the
\* amount of a withdrawal or transfer.
ErrorInput(action, params) ==
    \/ /\ action \in {"place_order", "modify_order", "update_leverage"}
       /\ params.size.kind = "bad" \/ params.leverage.kind = "bad"
    \/ /\ action \in {"withdraw", "transfer_funds", "send_asset"}
       /\ params.amount.kind = "bad"

\* C37: validate_action never raises and returns a result whose allowed
\* field is a boolean, for every wallet, action, params (None, missing or
\* non-numeric size, leverage, amount) and grant list (None included); a
\* call that meets an internal error returns allowed = false.
C37_ValidateNeverRaises ==
    vpc # "ready" =>
        /\ vpc = "done"
        /\ result.allowed \in BOOLEAN
        /\ (call.params # <<>> /\ ErrorInput(call.action, call.params[1])) =>
               ~result.allowed

\* validate_action has returned a validation error for update_leverage
\* with a size that is not a number, for a wallet with full access.
C37_Witness ==
    /\ vpc = "done"
    /\ call.action = "update_leverage"
    /\ call.params # <<>>
    /\ call.params[1].size.kind = "bad"
    /\ call.grants = <<<<"full_access">>>>
    /\ result.reason.kind = "validation_error"
    /\ ~result.allowed

(***************************************************************************)
(* Grants and the verdict                                                  *)
(***************************************************************************)

\* The grants of a list, as a set.
GrantsOf(wallet_permissions) ==
    {wallet_permissions[i] : i \in 1..Len(wallet_permissions)}

\* C38: grants are monotone: when validate_action allows an action for a
\* grant list it allows it, with the same parameters, for every grant list
\* that holds the same grants and more; and the result of the numeric risk
\* check is the same under every grant list.
C38_GrantsAreMonotone ==
    vpc = "done" =>
        \A more \in GrantLists :
            LET other == ValidateAction(global_risk_limits, call.action,
                                        call.params, more)
            IN  /\ (/\ result.allowed
                    /\ GrantsOf(call.grants) \subseteq GrantsOf(more)) =>
                       other.allowed
                /\ (/\ result.reason.kind \in {"exposure", "daily_limit",
                                               "risk_check_error"}
                    /\ other.reason.kind # "not_permitted") =>
                       other.reason = result.reason

\* validate_action has allowed an order for a wallet whose only grant is
\* trading, which longer grant lists extend.
C38_Witness ==
    /\ vpc = "done"
    /\ call.action = "place_order"
    /\ call.grants = <<"trading">>
    /\ result.allowed
    /\ \E more \in GrantLists :
           /\ Len(more) > 1
           /\ GrantsOf(call.grants) \subseteq GrantsOf(more)
           /\ "read_only" \in GrantsOf(more)

(***************************************************************************)
(* Callbacks that raise                                                    *)
(***************************************************************************)

\* C39: a callback that raises while a frame's event is emitted is
\* isolated: every callback registered for the event is still called, in
\* order, the receive loop stays at its recv() for the next frame, and
\* the connection state is as it was.
C39_CallbackFailuresAreIsolated ==
    [][(FrameHandled /\ RouteEvent(lastFrame') # "none") =>
           /\ [i \in 1..Len(emitted') |-> emitted'[i].callback]
                  = callbacks[RouteEvent(lastFrame')]
           /\ \A i \in 1..Len(emitted') :
                  emitted'[i].event = RouteEvent(lastFrame')
           /\ tasks' = tasks
           /\ connected' = connected
           /\ websocket' = websocket
           /\ reconnect_count' = reconnect_count
           /\ sockOpen' = sockOpen]_vars

\* A trades frame came in, the first of the two trade callbacks raised, the
\* second was called after it, and the client is connected with its
\* receive loop waiting for the next frame.
C39_Witness ==
    /\ lastFrame = [channel |-> "trades", error |-> FALSE, decodes |-> TRUE]
    /\ Len(emitted) = 2
    /\ emitted[1].event = "trade" /\ emitted[1].raised
    /\ emitted[2].event = "trade" /\ ~emitted[2].raised
    /\ connected
    /\ receive_task # 0
    /\ tasks[receive_task].kind = "rx" /\ tasks[receive_task].pc = "recv"

(***************************************************************************)
(* Registering a wallet again                                              *)
(***************************************************************************)

\* A register_wallet call on an address the registry already holds.
ReRegisters ==
    /\ regCalls' # regCalls
    /\ regOp'.op = "register_wallet"
    /\ regOp'.wallet \in DOMAIN registry

\* C40: register_wallet on an address that is already registered replaces
\* the whole entry: afterwards the wallet is active, its activity count is
\* 0, its last activity is unset and both activity logs are empty, whatever
\* the entry was before; the entries of all other wallets are unchanged.
C40_ReRegistrationReplacesTheEntry ==
    [][ReRegisters =>
           LET w == regOp'.wallet
           IN  /\ DOMAIN registry' = DOMAIN registry
               /\ registry'[w].is_active
               /\ registry'[w].activity_count = 0
               /\ registry'[w].last_activity = <<>>
               /\ registry'[w].approved_actions = <<>>
               /\ registry'[w].blocked_actions = <<>>
               /\ \A o \in DOMAIN registry \ {w} :
                      registry'[o] = registry[o]]_vars

\* The last call registered 0xA1 again and could not open the file, which
\* still holds the entry 0xA1 had: deactivated, with one blocked action.
\* The registry holds a new entry for 0xA1, and 0xB2, deactivated, as it
\* was.
C40_Witness ==
    /\ regOp.op = "register_wallet" /\ regOp.wallet = "0xA1"
    /\ registry_file.state = "json"
    /\ "0xA1" \in DOMAIN registry_file.wallets
    /\ ~registry_file.wallets["0xA1"].is_active
    /\ registry_file.wallets["0xA1"].activity_count = 1
    /\ registry_file.wallets["0xA1"].last_activity # <<>>
    /\ Len(registry_file.wallets["0xA1"].blocked_actions) = 1
    /\ "0xA1" \in DOMAIN registry
    /\ registry["0xA1"].is_active
    /\ registry["0xA1"].activity_count = 0
    /\ "0xB2" \in DOMAIN registry
    /\ ~registry["0xB2"].is_active

====
